---- MODULE Spec2Model ----
(***************************************************************************)
(* Model of components/chainhook-event-observer/src/hord/db/mod.rs:        *)
(*   - the block store (insert_entry_in_blocks, find_lazy_block_at_...),   *)
(*   - the satoshi-point traversal                                         *)
(*     (retrieve_satoshi_point_using_lazy_storage) and its cache,          *)
(*   - the ingestion pipeline (fetch_and_cache_blocks_in_hord_db).         *)
(* Two specifications share the variables: SpecTraversal runs traversals   *)
(* over a block store filled by insert_entry_in_blocks, SpecPipeline runs  *)
(* the three-stage pipeline.                                               *)
(***************************************************************************)
EXTENDS Integers, Sequences, FiniteSets, TLC

(***************************************************************************)
(* Bounds of the model.                                                    *)
(***************************************************************************)
\* heights of the blocks the traversal specification stores: 0..MaxHeight
MaxHeight == 3
\* traversals run in one behaviour (the cache is kept between them)
MaxTraversals == 2
\* inscription numbers handed to the traversal: 1..MaxInscriptionNumber
MaxInscriptionNumber == 1
\* largest value of an input that spends a coinbase
MaxValue == 3
\* pipeline runs: start_block in 0..MaxStartBlock, at most MaxBlocks blocks,
\* network_thread in 1..MaxNetworkThread
MaxStartBlock == 2
MaxBlocks == 3
MaxNetworkThread == 2
\* full blocks handed to from_full_block: at most MaxTransactions transactions
\* after the coinbase, each with at most MaxInputs inputs
MaxTransactions == 2
MaxInputs == 2
\* the inscription ids are 1..MaxInscriptionId
MaxInscriptionId == 2
\* the longest run of the final stage's housekeeping, in block writes
MaxWrites == 4130

(***************************************************************************)
(* Option values: None is the empty sequence, Some(x) the sequence <<x>>.  *)
(***************************************************************************)
None == <<>>
Some(x) == <<x>>
IsSome(o) == o # <<>>
Unwrap(o) == o[1]

Min(S) == CHOOSE x \in S : \A y \in S : x <= y

RECURSIVE SumValues(_)
SumValues(s) == IF s = <<>> THEN 0 ELSE Head(s) + SumValues(Tail(s))

(***************************************************************************)
(* ord::height::Height (hord/ord/height.rs is not part of the sources      *)
(* given): the halving schedule, with its two constants scaled down so     *)
(* that the values stay small (the chain uses 50 * 10^8 sats and 210000    *)
(* blocks).                                                                *)
(***************************************************************************)
InitialSubsidy == 2
SubsidyHalvingInterval == 4

RECURSIVE Halve(_, _)
Halve(v, n) == IF n = 0 \/ v = 0 THEN v ELSE Halve(v \div 2, n - 1)

subsidy(h) == Halve(InitialSubsidy, h \div SubsidyHalvingInterval)

RECURSIVE starting_sat(_)
starting_sat(h) == IF h = 0 THEN 0 ELSE starting_sat(h - 1) + subsidy(h - 1)

(***************************************************************************)
(* Packed blocks, as the lazy view reads them: the 8-byte prefix of the    *)
(* coinbase txid, the coinbase sats, and the non-coinbase transactions in  *)
(* block order, each with its txid prefix, inputs and output values.       *)
(* Txid prefixes are numbers other than 0; the transactions of different   *)
(* blocks have different prefixes.                                         *)
(***************************************************************************)
Heights == 0..MaxHeight
CoinbaseTxid(h) == 2 * h + 1
TxId(h) == 2 * h + 2

LazyBlockTransactionInput(txin, block_height, vout, txin_value) ==
    [txin |-> txin, block_height |-> block_height, vout |-> vout,
     txin_value |-> txin_value]

LazyBlockTransaction(txid, inputs, outputs) ==
    [txid |-> txid, inputs |-> inputs, outputs |-> outputs]

InputValues(inputs) == [i \in 1..Len(inputs) |-> inputs[i].txin_value]

\* The blocks the fetcher can hand over for height h.  Inputs carry their
\* resolved prevout: a block below h, a vout and a value.  Every transaction
\* spends at least what it pays (a consensus rule of the chain), so the u64
\* subtraction total_in - total_out of the fee scan is exact.
InputLists(h) ==
    {<<>>}
    \cup {<<LazyBlockTransactionInput(CoinbaseTxid(h - 1), h - 1, 0, v)>> :
            v \in 2..MaxValue}
    \cup {<<LazyBlockTransactionInput(TxId(h - 1), h - 1, k, 1)>> : k \in 0..1}
    \cup {<<LazyBlockTransactionInput(CoinbaseTxid(h - 1), h - 1, 0, 1),
            LazyBlockTransactionInput(CoinbaseTxid(h - 1), h - 1, 1, 1)>>}

OutputLists == {<<>>, <<1>>, <<1, 1>>, <<2, 1>>}

Transactions(h) ==
    {LazyBlockTransaction(TxId(h), ins, outs) :
        <<ins, outs>> \in
            {p \in InputLists(h) \X OutputLists :
                /\ SumValues(InputValues(p[1])) >= SumValues(p[2])
                /\ (p[2] = <<>>) <=> (p[1] = <<>>)}}

TxFee(tx) == SumValues(InputValues(tx.inputs)) - SumValues(tx.outputs)

LazyBlock(h, txs) ==
    [coinbase_txid |-> CoinbaseTxid(h),
     coinbase_sats |-> subsidy(h) + SumValues([i \in 1..Len(txs) |-> TxFee(txs[i])]),
     txs |-> txs]

Blocks(h) ==
    {LazyBlock(h, <<>>)}
    \cup (IF h = 0 THEN {} ELSE {LazyBlock(h, <<tx>>) : tx \in Transactions(h)})


(***************************************************************************)
(* State.                                                                  *)
(***************************************************************************)
VARIABLES
    \* block store: the packed block under each height key, and the value
    \* under the key metadata::last_insert (None while the key is absent)
    blocks_db, last_insert,
    \* DashMap<(u32, [u8; 8]), LazyBlockTransaction>
    traversals_cache,
    \* arguments of the running (or last) traversal
    block_identifier, transaction_identifier, inscription_number,
    \* locals of retrieve_satoshi_point_using_lazy_storage
    ordinal_offset, ordinal_block_number, tx_cursor, hops,
    \* "idle" between calls, "walking" inside the loop
    pc,
    \* what the last call returned, and which exit it took
    result, outcome,
    \* the move to an input made by the last loop iteration, if it made one
    last_hop,
    \* heights looked up in the block store by the running (or last) call
    reads,
    \* the calls that have ended, in order
    history,
    \* arguments of fetch_and_cache_blocks_in_hord_db
    start_block, end_block, network_thread,
    \* the three thread pools: jobs queued, and jobs a worker is running
    retrieve_block_hash_pool, retrieve_block_data_pool, compress_block_data_pool,
    \* the three bounded channels, oldest message first
    block_hash_ch, block_data_ch, block_compressed_ch,
    \* position of the "Block data retrieval" and "Block data compression" threads
    retrieval_pc, compression_pc,
    \* position of the calling thread in the final stage, and what it returned
    main_pc, main_result,
    \* locals of the final stage
    blocks_stored, cursor, inbox, num_writes,
    \* TRUE while the block store holds a write that no flush() has followed
    unflushed_writes,
    \* how the download of each height ended, once it has: TRUE for Ok
    download_results,
    \* how the hash fetch of each height ended, once it has: TRUE for Ok
    hash_results,
    \* the number of blocks stored when traversals_cache.clear() last ran
    last_clear,
    \* the calls of update_hord_db_and_augment_bitcoin_block, in order, each
    \* with the heights the block store held when it was made
    hook_calls,
    \* the build: TRUE when arithmetic overflow panics, FALSE when it wraps
    overflow_checks,
    \* the full block handed to from_full_block, what it returned, and what the
    \* lazy view and the eager decoder read from the bytes
    full_block, packed, lazy_read, eager_read,
    \* a tx_len and a directory index handed to the position arithmetic of the
    \* lazy view, and the two positions it computed
    position_query, position_result,
    \* the last operation on the block store: what it was, the store before it
    \* and the operation before it
    last_op,
    \* a block lookup with retry in progress: find_lazy_block_at_block_height
    \* ("lazy") or find_block_at_block_height ("eager")
    lookup,
    \* the rows of the table `inscriptions`, by inscription_id, and the last
    \* call of find_inscription_with_id with what it returned
    inscriptions, inscription_query,
    \* the last call of store_new_inscription: its id, whether the id was in
    \* the table and with another row than the one to write, whether the call
    \* returned, and the parity of the number of calls so far
    inscription_insert

storeVars == <<blocks_db, last_insert>>
traversalLocals ==
    <<block_identifier, transaction_identifier,
      inscription_number, ordinal_offset, ordinal_block_number, tx_cursor,
      hops, pc, result, outcome, last_hop, reads, history>>
traversalVars == <<traversals_cache, traversalLocals>>
hashStageVars == <<retrieve_block_hash_pool, block_hash_ch, hash_results>>
retrievalStageVars ==
    <<retrieve_block_data_pool, block_data_ch, retrieval_pc, download_results>>
compressionStageVars == <<compress_block_data_pool, block_compressed_ch, compression_pc>>
finalStageVars ==
    <<main_pc, main_result, blocks_stored, cursor, inbox, num_writes, hook_calls,
      unflushed_writes, last_clear>>
runVars == <<start_block, end_block, network_thread>>
pipelineVars ==
    <<runVars, hashStageVars, retrievalStageVars, compressionStageVars, finalStageVars>>
codecVars ==
    <<overflow_checks, full_block, packed, lazy_read, eager_read,
      position_query, position_result>>
\* the variables that neither the traversal nor the pipeline touches
storeOpVars == <<last_op, lookup>>
inscriptionVars == <<inscriptions, inscription_query, inscription_insert>>
otherVars == <<codecVars, storeOpVars, inscriptionVars>>

(***************************************************************************)
(* Block store.                                                            *)
(***************************************************************************)
\* variant of the insert that counts the watermark up by one per call
insert_entry_counting(block_height, lazy_block) ==
    /\ blocks_db' = (block_height :> lazy_block) @@ blocks_db
    /\ last_insert' = IF IsSome(last_insert) THEN Some(Unwrap(last_insert) + 1)
                      ELSE Some(block_height)

\* both puts of insert_entry_in_blocks: the block under its height, and the
\* height under metadata::last_insert
insert_entry_in_blocks(block_height, lazy_block) ==
    /\ blocks_db' = (block_height :> lazy_block) @@ blocks_db
    /\ last_insert' = Some(block_height)

find_last_block_inserted == IF IsSome(last_insert) THEN Unwrap(last_insert) ELSE 0

\* the store is not written while a lookup retries, so every attempt of the
\* retry loop sees the same answer
find_lazy_block_at_block_height(block_height) ==
    IF block_height \in DOMAIN blocks_db THEN Some(blocks_db[block_height]) ELSE None

(***************************************************************************)
(* Lazy view of a packed block.                                            *)
(***************************************************************************)
get_coinbase_txid(lazy_block) == lazy_block.coinbase_txid

iter_tx(lazy_block) == lazy_block.txs

\* the first transaction, in block order, whose txid prefix is the searched
\* one (the searched prefixes of the model are never the all-zero prefix)
find_and_serialize_transaction_with_txid(lazy_block, searched_txid) ==
    LET hits == {i \in 1..Len(lazy_block.txs) : lazy_block.txs[i].txid = searched_txid}
    IN  IF hits = {} THEN None ELSE Some(lazy_block.txs[Min(hits)])

(***************************************************************************)
(* retrieve_satoshi_point_using_lazy_storage.                              *)
(***************************************************************************)
TxCursor(txid, vout) == [txid |-> txid, vout |-> vout]

\* sats_in after the first k inputs have been added
RunningSatsIn(inputs, k) == SumValues(SubSeq(InputValues(inputs), 1, k))

\* the outputs before index tx_cursor.1, plus the offset
SatsOut(outputs, vout, offset) ==
    SumValues(SubSeq(outputs, 1, IF vout < Len(outputs) THEN vout ELSE Len(outputs)))
        + offset

\* variant of the guard that already fails at hops = block_identifier.index
HopLimitExceededInclusive(new_hops, index) == new_hops >= index

\* the guard at the top of the loop: hops as u64 > block_identifier.index
HopLimitExceeded(new_hops, index) == new_hops > index

\* the test that stops the input scan of a transaction hop
HopTest(sats_out, sats_in) == sats_out < sats_in

\* the test that stops the input scan of the fee-range resolution
FeeHopTest(sats_in, total_out) == sats_in >= total_out

\* index of the input at which the scan of a hop stops, 0 if it runs off the end
ScanInputs(inputs, sats_out) ==
    LET stops == {k \in 1..Len(inputs) : HopTest(sats_out, RunningSatsIn(inputs, k))}
    IN  IF stops = {} THEN 0 ELSE Min(stops)

ScanFeeInputs(inputs, total_out) ==
    LET stops == {k \in 1..Len(inputs) : FeeHopTest(RunningSatsIn(inputs, k), total_out)}
    IN  IF stops = {} THEN 0 ELSE Min(stops)

\* variant of the move that keeps the block number of the spending transaction
MoveToInputSameBlock(input, position, sats_in) ==
    [ordinal_offset |-> position - (sats_in - input.txin_value),
     ordinal_block_number |-> ordinal_block_number,
     tx_cursor |-> TxCursor(input.txin, input.vout)]

\* variant of the move that leaves tx_cursor on the spending transaction
MoveToInputKeepingCursor(input, position, sats_in) ==
    [ordinal_offset |-> position - (sats_in - input.txin_value),
     ordinal_block_number |-> input.block_height,
     tx_cursor |-> tx_cursor]

\* the three assignments made when the scan stops at an input
MoveToInput(input, position, sats_in) ==
    [ordinal_offset |-> position - (sats_in - input.txin_value),
     ordinal_block_number |-> input.block_height,
     tx_cursor |-> TxCursor(input.txin, input.vout)]

NoHop == [kind |-> "none", from_block |-> 0, from_offset |-> 0, position |-> 0,
          sats_in |-> 0, value |-> 0]
Hop(kind, position, sats_in, value) ==
    [kind |-> kind, from_block |-> ordinal_block_number,
     from_offset |-> ordinal_offset, position |-> position, sats_in |-> sats_in,
     value |-> value]

TraversalResult(n, ordinal_number, transfers) ==
    [ok |-> TRUE, inscription_number |-> n, ordinal_number |-> ordinal_number,
     transfers |-> transfers, error |-> "", height |-> 0]
\* variant of the error that does not carry the height
TraversalErrorWithoutHeight(error, height) ==
    [ok |-> FALSE, inscription_number |-> 0, ordinal_number |-> 0,
     transfers |-> 0, error |-> error, height |-> 0]

TraversalError(error, height) ==
    [ok |-> FALSE, inscription_number |-> 0, ordinal_number |-> 0,
     transfers |-> 0, error |-> error, height |-> height]

\* variant that drops the offset within the block
OrdinalNumberOfBlockStart(block_number, offset) == starting_sat(block_number)

\* height.starting_sat().0 + ordinal_offset, after the loop
OrdinalNumber(block_number, offset) == starting_sat(block_number) + offset

\* the result returned for a transaction whose inputs sum to zero
NonSpendingResult == TraversalResult(0, 0, 0)

\* variant of the insert that stores nothing
CacheInsertDropped(cache, key, lazy_tx) == cache

\* variant of the insert that stores the transaction without its outputs
CacheInsertWithoutOutputs(cache, key, lazy_tx) ==
    (key :> [lazy_tx EXCEPT !.outputs = <<>>]) @@ cache

\* traversals_cache.insert(key, lazy_tx)
CacheInsert(cache, key, lazy_tx) == (key :> lazy_tx) @@ cache

\* the index of the first transaction whose fee range holds the offset, 0 if
\* the scan of the block ends without one
RECURSIVE FeeScan(_, _, _, _)
FeeScan(txs, i, accumulated_fees, offset) ==
    IF i > Len(txs) THEN [index |-> 0, accumulated_fees |-> accumulated_fees]
    ELSE IF accumulated_fees + TxFee(txs[i]) > offset
         THEN [index |-> i, accumulated_fees |-> accumulated_fees]
         ELSE FeeScan(txs, i + 1, accumulated_fees + TxFee(txs[i]), offset)

\* variant that forgets the outputs of the chosen transaction
FeeTotalOutWithoutOutputs(tx, offset_within_fee) == offset_within_fee

\* total_out of the chosen transaction, moved by the offset within its fee
FeeTotalOut(tx, offset_within_fee) == SumValues(tx.outputs) + offset_within_fee

\* variant of the lookup that never finds an entry
CacheGetNothing(cache, key) == None

\* traversals_cache.get(&key)
CacheGet(cache, key) == IF key \in DOMAIN cache THEN Some(cache[key]) ELSE None

\* Outcomes of one loop iteration.
Continue(move, cache, rd, hop) ==
    [pc |-> "walking", result |-> None, outcome |-> "Walking",
     ordinal_offset |-> move.ordinal_offset,
     ordinal_block_number |-> move.ordinal_block_number,
     tx_cursor |-> move.tx_cursor, cache |-> cache, reads |-> rd, last_hop |-> hop]
Stay == [ordinal_offset |-> ordinal_offset,
         ordinal_block_number |-> ordinal_block_number, tx_cursor |-> tx_cursor]
Return(res, how, cache, rd) ==
    [pc |-> "idle", result |-> res, outcome |-> how,
     ordinal_offset |-> ordinal_offset,
     ordinal_block_number |-> ordinal_block_number,
     tx_cursor |-> tx_cursor, cache |-> cache, reads |-> rd, last_hop |-> NoHop]

\* the part of the loop body after the cache lookup: fetch the block, then the
\* coinbase exit, the fee-range resolution or the transaction hop
FetchAndHop(new_hops) ==
    LET found == find_lazy_block_at_block_height(ordinal_block_number)
        rd == Append(reads, ordinal_block_number)
    IN
    IF ~IsSome(found)
    THEN Return(Some(TraversalError("BlockMissing", ordinal_block_number)),
                "BlockMissing", traversals_cache, rd)
    ELSE
    LET lazy_block == Unwrap(found) IN
    IF get_coinbase_txid(lazy_block) = tx_cursor.txid
    THEN
        IF ordinal_offset < subsidy(ordinal_block_number)
        THEN Return(Some(TraversalResult(inscription_number,
                        OrdinalNumber(ordinal_block_number, ordinal_offset),
                        new_hops)),
                    "Done", traversals_cache, rd)
        ELSE
        LET scan == FeeScan(iter_tx(lazy_block), 1,
                            subsidy(ordinal_block_number), ordinal_offset)
        IN
        IF scan.index = 0
        THEN Continue(Stay, traversals_cache, rd, NoHop)
        ELSE
        LET tx == iter_tx(lazy_block)[scan.index]
            offset_within_fee == ordinal_offset - scan.accumulated_fees
            total_out == FeeTotalOut(tx, offset_within_fee)
            k == ScanFeeInputs(tx.inputs, total_out)
        IN
        IF k = 0
        THEN Continue(Stay, traversals_cache, rd, NoHop)
        ELSE Continue(MoveToInput(tx.inputs[k], total_out, RunningSatsIn(tx.inputs, k)),
                      traversals_cache, rd,
                      Hop("fee", total_out, RunningSatsIn(tx.inputs, k),
                          tx.inputs[k].txin_value))
    ELSE
    LET entry == find_and_serialize_transaction_with_txid(lazy_block, tx_cursor.txid) IN
    IF ~IsSome(entry)
    THEN \* None => unreachable!()
         Return(None, "Panic", traversals_cache, rd)
    ELSE
    LET lazy_tx == Unwrap(entry)
        sats_out == SatsOut(lazy_tx.outputs, tx_cursor.vout, ordinal_offset)
        k == ScanInputs(lazy_tx.inputs, sats_out)
    IN
    IF k # 0
    THEN Continue(MoveToInput(lazy_tx.inputs[k], sats_out, RunningSatsIn(lazy_tx.inputs, k)),
                  CacheInsert(traversals_cache,
                              <<ordinal_block_number, tx_cursor.txid>>, lazy_tx),
                  rd,
                  Hop("tx", sats_out, RunningSatsIn(lazy_tx.inputs, k),
                      lazy_tx.inputs[k].txin_value))
    ELSE IF SumValues(InputValues(lazy_tx.inputs)) = 0
    THEN Return(Some(NonSpendingResult), "Degenerate", traversals_cache, rd)
    ELSE Continue(Stay, traversals_cache, rd, NoHop)

\* one pass through the body of the loop
LoopIteration(new_hops) ==
    IF HopLimitExceeded(new_hops, block_identifier)
    THEN Return(Some(TraversalError("HopLimit", new_hops)), "HopLimit",
                traversals_cache, reads)
    ELSE
    LET cached_tx == CacheGet(traversals_cache, <<ordinal_block_number, tx_cursor.txid>>) IN
    IF IsSome(cached_tx)
    THEN
        LET tx == Unwrap(cached_tx)
            sats_out == SatsOut(tx.outputs, tx_cursor.vout, ordinal_offset)
            k == ScanInputs(tx.inputs, sats_out)
        IN
        IF k # 0
        THEN Continue(MoveToInput(tx.inputs[k], sats_out, RunningSatsIn(tx.inputs, k)),
                      traversals_cache, reads,
                      Hop("cached", sats_out, RunningSatsIn(tx.inputs, k),
                          tx.inputs[k].txin_value))
        ELSE IF SumValues(InputValues(tx.inputs)) = 0
        THEN Return(Some(NonSpendingResult), "Degenerate", traversals_cache, reads)
        ELSE FetchAndHop(new_hops)
    ELSE FetchAndHop(new_hops)

\* what the loop returns from a cursor when every iteration takes the path
\* after the cache lookup (the lookup finds nothing and nothing looked up later
\* was inserted): the result and the way the call ended
Outcome(res, how) == [result |-> res, outcome |-> how]
RECURSIVE UncachedOutcome(_, _, _, _)
UncachedOutcome(block_number, offset, cur, new_hops) ==
    IF HopLimitExceeded(new_hops, block_identifier)
    THEN Outcome(Some(TraversalError("HopLimit", new_hops)), "HopLimit")
    ELSE
    LET found == find_lazy_block_at_block_height(block_number) IN
    IF ~IsSome(found)
    THEN Outcome(Some(TraversalError("BlockMissing", block_number)), "BlockMissing")
    ELSE
    LET lazy_block == Unwrap(found)
        again == UncachedOutcome(block_number, offset, cur, new_hops + 1)
    IN
    IF get_coinbase_txid(lazy_block) = cur.txid
    THEN
        IF offset < subsidy(block_number)
        THEN Outcome(Some(TraversalResult(inscription_number,
                            OrdinalNumber(block_number, offset), new_hops)),
                     "Done")
        ELSE
        LET scan == FeeScan(iter_tx(lazy_block), 1, subsidy(block_number), offset) IN
        IF scan.index = 0
        THEN again
        ELSE
        LET tx == iter_tx(lazy_block)[scan.index]
            total_out == FeeTotalOut(tx, offset - scan.accumulated_fees)
            k == ScanFeeInputs(tx.inputs, total_out)
        IN
        IF k = 0
        THEN again
        ELSE LET move == MoveToInput(tx.inputs[k], total_out,
                                     RunningSatsIn(tx.inputs, k))
             IN  UncachedOutcome(move.ordinal_block_number, move.ordinal_offset,
                                 move.tx_cursor, new_hops + 1)
    ELSE
    LET entry == find_and_serialize_transaction_with_txid(lazy_block, cur.txid) IN
    IF ~IsSome(entry)
    THEN Outcome(None, "Panic")
    ELSE
    LET lazy_tx == Unwrap(entry)
        sats_out == SatsOut(lazy_tx.outputs, cur.vout, offset)
        k == ScanInputs(lazy_tx.inputs, sats_out)
    IN
    IF k # 0
    THEN LET move == MoveToInput(lazy_tx.inputs[k], sats_out,
                                 RunningSatsIn(lazy_tx.inputs, k))
         IN  UncachedOutcome(move.ordinal_block_number, move.ordinal_offset,
                             move.tx_cursor, new_hops + 1)
    ELSE IF SumValues(InputValues(lazy_tx.inputs)) = 0
    THEN Outcome(Some(NonSpendingResult), "Degenerate")
    ELSE again

HistoryEntry(res, how, rd, n_hops) ==
    [block_identifier |-> block_identifier,
     transaction_identifier |-> transaction_identifier,
     inscription_number |-> inscription_number,
     result |-> res, outcome |-> how, reads |-> rd, hops |-> n_hops]

(***************************************************************************)
(* Actions of the traversal specification.                                 *)
(***************************************************************************)
\* the ingestion stores a block above the last one stored; the blocks of a
\* behaviour are stored before its traversals run
StoreBlock ==
    /\ pc = "idle"
    /\ history = <<>>
    /\ \E h \in Heights :
        /\ IsSome(last_insert) => h > Unwrap(last_insert)
        /\ \E lazy_block \in Blocks(h) : insert_entry_in_blocks(h, lazy_block)
    /\ UNCHANGED <<traversalVars, pipelineVars, otherVars>>

\* variant of the store access that leaves the height it looks at as the
\* watermark
TraversalStoreAccessMovingWatermark ==
    /\ last_insert' = Some(ordinal_block_number)
    /\ UNCHANGED <<blocks_db, inscriptions, inscription_query, inscription_insert>>

\* what the function can do to the two stores: it is handed the block store
\* to read with find_lazy_block_at_block_height, and no connection to the
\* inscription store
TraversalStoreAccess ==
    UNCHANGED <<blocks_db, last_insert, inscriptions, inscription_query, inscription_insert>>

\* a call of retrieve_satoshi_point_using_lazy_storage, up to the loop
StartTraversal ==
    /\ pc = "idle"
    /\ Len(history) < MaxTraversals
    /\ \E index \in Heights, n \in 1..MaxInscriptionNumber :
        \E txid \in {CoinbaseTxid(index), TxId(index)} :
            /\ block_identifier' = index
            /\ transaction_identifier' = txid
            /\ inscription_number' = n
            /\ ordinal_offset' = 0
            /\ ordinal_block_number' = index
            /\ tx_cursor' = TxCursor(txid, 0)
    /\ hops' = 0
    /\ pc' = "walking"
    /\ result' = None
    /\ outcome' = "Walking"
    /\ last_hop' = NoHop
    /\ reads' = <<>>
    /\ UNCHANGED <<traversals_cache, history>>
    /\ TraversalStoreAccess
    /\ UNCHANGED <<pipelineVars, codecVars, storeOpVars>>

\* one iteration of the loop
Iterate ==
    /\ pc = "walking"
    /\ LET step == LoopIteration(hops + 1) IN
        /\ hops' = hops + 1
        /\ pc' = step.pc
        /\ result' = step.result
        /\ outcome' = step.outcome
        /\ ordinal_offset' = step.ordinal_offset
        /\ ordinal_block_number' = step.ordinal_block_number
        /\ tx_cursor' = step.tx_cursor
        /\ traversals_cache' = step.cache
        /\ reads' = step.reads
        /\ last_hop' = step.last_hop
        /\ history' = IF step.pc = "idle"
                      THEN Append(history,
                                  HistoryEntry(step.result, step.outcome,
                                               step.reads, hops + 1))
                      ELSE history
    /\ UNCHANGED <<block_identifier, transaction_identifier, inscription_number>>
    /\ TraversalStoreAccess
    /\ UNCHANGED <<pipelineVars, codecVars, storeOpVars>>

(***************************************************************************)
(* fetch_and_cache_blocks_in_hord_db.                                      *)
(***************************************************************************)
\* The ordinal activation height.  The code sets 765000; the model scales it
\* down so that a run that starts at block 0 crosses it within MaxBlocks
\* blocks.  Every comparison with it is the code's.
ordinal_computing_height == 1

\* variant that leaves the last height of the range out of the count
number_of_blocks_to_process_exclusive == end_block - start_block

number_of_blocks_to_process == end_block - start_block + 1

\* (block_hash_req_lim, block_req_lim, block_process_lim, processing_thread)
block_hash_req_lim == IF start_block >= ordinal_computing_height THEN 8 ELSE 256
block_req_lim == IF start_block >= ordinal_computing_height THEN 8 ELSE 128
block_process_lim == IF start_block >= ordinal_computing_height THEN 8 ELSE 128
processing_thread == IF start_block >= ordinal_computing_height THEN 4 ELSE 16

\* ThreadPool: execute() queues a job, a free worker takes the oldest queued
\* job, join() returns once no job is queued or running
ThreadPool(queue, running) == [queue |-> queue, running |-> running]
Execute(pool, job) == ThreadPool(Append(pool.queue, job), pool.running)
CanTake(pool, workers) == pool.queue # <<>> /\ Cardinality(pool.running) < workers
Take(pool) == ThreadPool(Tail(pool.queue), pool.running \cup {Head(pool.queue)})
Finish(pool, job) == ThreadPool(pool.queue, pool.running \ {job})
Joined(pool) == pool.queue = <<>> /\ pool.running = {}

\* the packed block LazyBlock::from_full_block makes of the block downloaded
\* for a height (the pipeline does not look into it)
from_full_block(block_height) == LazyBlock(block_height, <<>>)

MainReturned == main_pc = "returned"

\* a cursor that steps over a height
NextCursorSkipping(c) == c + 2

\* cursor += 1
NextCursor(c) == c + 1

\* variant in which the pools are joined only after the loops
JoinsAfterNone(block_height) == FALSE

\* if block_height >= ordinal_computing_height { let _ = pool.join(); }
JoinsAfter(block_height) == block_height >= ordinal_computing_height

\* variant in which the error is logged and the loop goes on
LogErrAndContinue == UNCHANGED <<main_pc, main_result>>

\* return Err(e), out of the dequeue loop and of the function
ReturnErr ==
    /\ main_pc' = "returned"
    /\ main_result' = "Err"

\* ---- thread pool #1: the block hash of each height ------------------------
\* a worker takes the next height
HashJobStart ==
    /\ CanTake(retrieve_block_hash_pool, network_thread)
    /\ retrieve_block_hash_pool' = Take(retrieve_block_hash_pool)
    /\ UNCHANGED <<block_hash_ch, hash_results, runVars, otherVars, retrievalStageVars, compressionStageVars,
                   finalStageVars, storeVars, traversalVars>>

\* the hash arrived: send Some((block_height, block_hash)); the send waits while
\* the channel is full and panics once the receiver is gone
HashJobSend ==
    /\ \E block_height \in retrieve_block_hash_pool.running :
        /\ retrieve_block_hash_pool' = Finish(retrieve_block_hash_pool, block_height)
        /\ hash_results' = (block_height :> TRUE) @@ hash_results
        /\ IF retrieval_pc = "done"
           THEN block_hash_ch' = block_hash_ch
           ELSE /\ Len(block_hash_ch) < block_hash_req_lim
                /\ block_hash_ch' = Append(block_hash_ch, Some(block_height))
    /\ UNCHANGED <<runVars, otherVars, retrievalStageVars, compressionStageVars,
                   finalStageVars, storeVars, traversalVars>>

\* retrieve_block_hash_with_retry returned Err: unwrap() panics, the job ends
\* and sends nothing
HashJobPanic ==
    /\ \E block_height \in retrieve_block_hash_pool.running :
        /\ retrieve_block_hash_pool' = Finish(retrieve_block_hash_pool, block_height)
        /\ hash_results' = (block_height :> FALSE) @@ hash_results
    /\ UNCHANGED <<block_hash_ch, runVars, otherVars, retrievalStageVars, compressionStageVars,
                   finalStageVars, storeVars, traversalVars>>

\* ---- thread "Block data retrieval" ----------------------------------------
\* block_hash_rx.recv(): a height starts a download job (and a join at or
\* above the activation height); None or a closed channel ends the loop
RetrievalRecv ==
    /\ retrieval_pc = "recv"
    /\ IF block_hash_ch # <<>>
       THEN /\ block_hash_ch' = Tail(block_hash_ch)
            /\ IF IsSome(Head(block_hash_ch))
               THEN LET block_height == Unwrap(Head(block_hash_ch)) IN
                    /\ retrieve_block_data_pool' =
                            Execute(retrieve_block_data_pool, block_height)
                    /\ retrieval_pc' = IF JoinsAfter(block_height)
                                       THEN "join" ELSE "recv"
               ELSE /\ retrieval_pc' = "final_join"
                    /\ UNCHANGED retrieve_block_data_pool
       ELSE /\ MainReturned
            /\ Joined(retrieve_block_hash_pool)
            /\ retrieval_pc' = "final_join"
            /\ UNCHANGED <<block_hash_ch, retrieve_block_data_pool>>
    /\ UNCHANGED <<retrieve_block_hash_pool, hash_results, block_data_ch,
                   download_results, runVars,
                   otherVars, compressionStageVars, finalStageVars, storeVars,
                   traversalVars>>

\* retrieve_block_data_pool.join(), inside the loop and after it
RetrievalJoin ==
    /\ retrieval_pc \in {"join", "final_join"}
    /\ Joined(retrieve_block_data_pool)
    /\ retrieval_pc' = IF retrieval_pc = "join" THEN "recv" ELSE "done"
    /\ UNCHANGED <<retrieve_block_data_pool, block_data_ch, download_results, runVars,
                   otherVars, hashStageVars, compressionStageVars, finalStageVars,
                   storeVars, traversalVars>>

DownloadJobStart ==
    /\ CanTake(retrieve_block_data_pool, network_thread)
    /\ retrieve_block_data_pool' = Take(retrieve_block_data_pool)
    /\ UNCHANGED <<block_data_ch, retrieval_pc, download_results, runVars, otherVars,
                   hashStageVars, compressionStageVars, finalStageVars, storeVars,
                   traversalVars>>

\* download_block_with_retry returned: send Some(block_data), or None after an
\* error; the result of the send is dropped
DownloadJobSend ==
    /\ \E block_height \in retrieve_block_data_pool.running :
        /\ retrieve_block_data_pool' = Finish(retrieve_block_data_pool, block_height)
        /\ \E res \in {Some(block_height), None} :
            /\ download_results' = (block_height :> IsSome(res)) @@ download_results
            /\ IF compression_pc = "done"
               THEN block_data_ch' = block_data_ch
               ELSE /\ Len(block_data_ch) < block_req_lim
                    /\ block_data_ch' = Append(block_data_ch, res)
    /\ UNCHANGED <<retrieval_pc, runVars, otherVars, hashStageVars, compressionStageVars,
                   finalStageVars, storeVars, traversalVars>>

\* ---- thread "Block data compression" --------------------------------------
CompressionRecv ==
    /\ compression_pc = "recv"
    /\ IF block_data_ch # <<>>
       THEN /\ block_data_ch' = Tail(block_data_ch)
            /\ IF IsSome(Head(block_data_ch))
               THEN LET block_height == Unwrap(Head(block_data_ch)) IN
                    /\ compress_block_data_pool' =
                            Execute(compress_block_data_pool, block_height)
                    /\ compression_pc' = IF JoinsAfter(block_height)
                                         THEN "join" ELSE "recv"
               ELSE /\ compression_pc' = "final_join"
                    /\ UNCHANGED compress_block_data_pool
       ELSE /\ MainReturned
            /\ retrieval_pc = "done"
            /\ compression_pc' = "final_join"
            /\ UNCHANGED <<block_data_ch, compress_block_data_pool>>
    /\ UNCHANGED <<retrieve_block_data_pool, retrieval_pc, download_results,
                   block_compressed_ch, runVars, otherVars, hashStageVars, finalStageVars, storeVars, traversalVars>>

CompressionJoin ==
    /\ compression_pc \in {"join", "final_join"}
    /\ Joined(compress_block_data_pool)
    /\ compression_pc' = IF compression_pc = "join" THEN "recv" ELSE "done"
    /\ UNCHANGED <<compress_block_data_pool, block_compressed_ch, runVars, otherVars,
                   hashStageVars, retrievalStageVars, finalStageVars, storeVars,
                   traversalVars>>

CompressJobStart ==
    /\ CanTake(compress_block_data_pool, processing_thread)
    /\ compress_block_data_pool' = Take(compress_block_data_pool)
    /\ UNCHANGED <<block_compressed_ch, compression_pc, runVars, otherVars, hashStageVars,
                   retrievalStageVars, finalStageVars, storeVars, traversalVars>>

\* the block is packed: send Some((block_index, compressed_block, block_data));
\* the result of the send is dropped
CompressJobSend ==
    /\ \E block_height \in compress_block_data_pool.running :
        /\ compress_block_data_pool' = Finish(compress_block_data_pool, block_height)
        /\ IF MainReturned
           THEN block_compressed_ch' = block_compressed_ch
           ELSE /\ Len(block_compressed_ch) < block_process_lim
                /\ block_compressed_ch' = Append(block_compressed_ch, block_height)
    /\ UNCHANGED <<compression_pc, runVars, otherVars, hashStageVars, retrievalStageVars,
                   finalStageVars, storeVars, traversalVars>>

\* ---- the final stage, on the calling thread --------------------------------
\* block_compressed_rx.recv(): store the block, count it and, above the
\* activation height, put it in the inbox; a closed channel ends the loop
MainRecv ==
    /\ main_pc = "recv"
    /\ IF block_compressed_ch # <<>>
       THEN LET block_height == Head(block_compressed_ch) IN
            /\ block_compressed_ch' = Tail(block_compressed_ch)
            /\ insert_entry_in_blocks(block_height, from_full_block(block_height))
            /\ blocks_stored' = blocks_stored + 1
            /\ num_writes' = num_writes + 1
            /\ unflushed_writes' = TRUE
            /\ IF block_height > ordinal_computing_height
               THEN /\ cursor' = IF cursor = 0 THEN block_height ELSE cursor
                    /\ inbox' = inbox \cup {block_height}
                    /\ main_pc' = "dequeue"
               ELSE /\ main_pc' = "check"
                    /\ UNCHANGED <<cursor, inbox>>
       ELSE /\ compression_pc = "done"
            /\ unflushed_writes' = FALSE
            /\ main_pc' = "final_join"
            /\ UNCHANGED <<block_compressed_ch, blocks_stored, num_writes, cursor,
                           inbox, storeVars>>
    /\ UNCHANGED <<main_result, hook_calls, last_clear, compress_block_data_pool,
                   compression_pc, runVars, otherVars, hashStageVars, retrievalStageVars,
                   traversalVars>>

\* one turn of `while let Some(next_block) = inbox.remove(&cursor)`: the block
\* is standardized, the store flushed and the hook called; an error of either
\* is returned
MainDequeue ==
    /\ main_pc = "dequeue"
    /\ LET key == cursor IN
       IF key \in inbox
       THEN /\ inbox' = inbox \ {key}
            /\ \E how \in {"ok", "standardize_err", "hook_err"} :
                /\ hook_calls' =
                        IF how = "standardize_err" THEN hook_calls
                        ELSE Append(hook_calls,
                                    [height |-> key, stored |-> DOMAIN blocks_db])
                /\ unflushed_writes' =
                        IF how = "standardize_err" THEN unflushed_writes ELSE FALSE
                /\ IF how = "ok"
                   THEN /\ cursor' = NextCursor(cursor)
                        /\ UNCHANGED <<main_pc, main_result>>
                   ELSE /\ ReturnErr
                        /\ UNCHANGED cursor
       ELSE /\ main_pc' = "check"
            /\ UNCHANGED <<inbox, hook_calls, cursor, main_result, unflushed_writes>>
    /\ UNCHANGED <<blocks_stored, num_writes, last_clear, runVars, otherVars, hashStageVars,
                   retrievalStageVars, compressionStageVars, storeVars, traversalVars>>

\* if num_writes % 24 == 0
ClearsCache(writes) == writes % 24 = 0

\* if num_writes % 4096 == 0
FlushesStore(writes) == writes % 4096 = 0

\* the housekeeping at the end of the loop body, with `writes` the value of
\* num_writes and `stored` that of blocks_stored: traversals_cache.clear()
\* every 24 writes; blocks_db_rw.flush() and num_writes = 0 every 4096
Housekeeping(writes, stored, unflushed) ==
    /\ traversals_cache' = IF ClearsCache(writes) THEN <<>> ELSE traversals_cache
    /\ last_clear' = IF ClearsCache(writes) THEN stored ELSE last_clear
    /\ num_writes' = IF FlushesStore(writes) THEN 0 ELSE writes
    /\ unflushed_writes' = IF FlushesStore(writes) THEN FALSE ELSE unflushed

\* the end of the loop body: with every block stored, send None on block_data_tx
\* and block_hash_tx and return Ok; otherwise clear the traversal cache every
\* 24 writes, and flush and restart the count every 4096
MainCheck ==
    /\ main_pc = "check"
    /\ IF blocks_stored = number_of_blocks_to_process
       THEN /\ IF compression_pc = "done"
               THEN block_data_ch' = block_data_ch
               ELSE /\ Len(block_data_ch) < block_req_lim
                    /\ block_data_ch' = Append(block_data_ch, None)
            /\ IF retrieval_pc = "done"
               THEN block_hash_ch' = block_hash_ch
               ELSE /\ Len(block_hash_ch) < block_hash_req_lim
                    /\ block_hash_ch' = Append(block_hash_ch, None)
            /\ main_pc' = "returned"
            /\ main_result' = "Ok"
            /\ UNCHANGED <<num_writes, traversals_cache, unflushed_writes, last_clear>>
       ELSE /\ Housekeeping(num_writes, blocks_stored, unflushed_writes)
            /\ main_pc' = "recv"
            /\ UNCHANGED <<block_data_ch, block_hash_ch, main_result>>
    /\ UNCHANGED <<blocks_stored, cursor, inbox, hook_calls, runVars, otherVars,
                   retrieve_block_hash_pool, hash_results, retrieve_block_data_pool,
                   retrieval_pc, download_results,
                   compressionStageVars, storeVars, traversalLocals>>

\* the activation height as the code has it
ordinal_computing_height_unscaled == 765000

\* one whole turn of the final stage's loop for a block at or below the
\* activation height (heights here are the code's, not scaled), the blocks
\* arriving in height order: the insert, the two counts, the completion test
\* and the housekeeping
StoreBelowActivation ==
    /\ main_pc = "recv"
    /\ LET block_height == start_block + blocks_stored IN
       /\ block_height <= end_block
       /\ ~(block_height > ordinal_computing_height_unscaled)
       /\ insert_entry_in_blocks(block_height, from_full_block(block_height))
       /\ blocks_stored' = blocks_stored + 1
       /\ IF blocks_stored + 1 = number_of_blocks_to_process
          THEN /\ main_pc' = "returned"
               /\ main_result' = "Ok"
               /\ num_writes' = num_writes + 1
               /\ unflushed_writes' = TRUE
               /\ UNCHANGED <<traversals_cache, last_clear>>
          ELSE /\ Housekeeping(num_writes + 1, blocks_stored + 1, TRUE)
               /\ UNCHANGED <<main_pc, main_result>>
    /\ UNCHANGED <<cursor, inbox, hook_calls, runVars, hashStageVars, retrievalStageVars,
                   compressionStageVars, traversalLocals, otherVars>>

\* after the loop: flush, retrieve_block_hash_pool.join(), Ok(())
MainJoin ==
    /\ main_pc = "final_join"
    /\ Joined(retrieve_block_hash_pool)
    /\ main_pc' = "returned"
    /\ main_result' = "Ok"
    /\ UNCHANGED <<blocks_stored, cursor, inbox, num_writes, hook_calls,
                   unflushed_writes, last_clear, runVars, otherVars, hashStageVars, retrievalStageVars, compressionStageVars,
                   storeVars, traversalVars>>

RECURSIVE Range(_, _)
Range(lo, hi) == IF lo > hi THEN <<>> ELSE <<lo>> \o Range(lo + 1, hi)

\* the state once the hash jobs have been queued and the two threads spawned
InitPipeline ==
    /\ start_block \in 0..MaxStartBlock
    /\ end_block \in start_block..(start_block + MaxBlocks - 1)
    /\ network_thread \in 1..MaxNetworkThread
    /\ retrieve_block_hash_pool = ThreadPool(Range(start_block, end_block), {})
    /\ retrieve_block_data_pool = ThreadPool(<<>>, {})
    /\ compress_block_data_pool = ThreadPool(<<>>, {})
    /\ block_hash_ch = <<>>
    /\ block_data_ch = <<>>
    /\ block_compressed_ch = <<>>
    /\ retrieval_pc = "recv"
    /\ compression_pc = "recv"
    /\ main_pc = "recv"
    /\ main_result = ""
    /\ blocks_stored = 0
    /\ cursor = start_block
    /\ inbox = {}
    /\ num_writes = 0
    /\ hook_calls = <<>>
    /\ unflushed_writes = FALSE
    /\ download_results = <<>>
    /\ hash_results = <<>>
    /\ last_clear = 0

\* the last write before the first flush that is followed by a clear
WritesAtLastClearBeforeFlush == (4096 \div 24) * 24

\* the final stage alone, with the upstream stages left out: a run from height
\* 0 of 24 blocks or of MaxWrites blocks before its first block, and the run
\* of MaxWrites blocks as it stands after write WritesAtLastClearBeforeFlush
InitHousekeeping ==
    /\ start_block = 0
    /\ end_block \in {23, MaxWrites - 1}
    /\ blocks_stored \in {0} \cup (IF end_block = 23 THEN {} ELSE {WritesAtLastClearBeforeFlush})
    /\ num_writes = blocks_stored
    /\ last_clear = blocks_stored
    /\ unflushed_writes = (blocks_stored > 0)
    /\ blocks_db = [h \in 0..(blocks_stored - 1) |-> from_full_block(h)]
    /\ last_insert = IF blocks_stored = 0 THEN None ELSE Some(blocks_stored - 1)
    /\ network_thread = 1
    /\ retrieve_block_hash_pool = ThreadPool(<<>>, {})
    /\ retrieve_block_data_pool = ThreadPool(<<>>, {})
    /\ compress_block_data_pool = ThreadPool(<<>>, {})
    /\ block_hash_ch = <<>>
    /\ block_data_ch = <<>>
    /\ block_compressed_ch = <<>>
    /\ retrieval_pc = "done"
    /\ compression_pc = "done"
    /\ main_pc = "recv"
    /\ main_result = ""
    /\ cursor = start_block
    /\ inbox = {}
    /\ hook_calls = <<>>
    /\ download_results = <<>>
    /\ hash_results = <<>>

\* no run of the pipeline
NoPipeline ==
    /\ start_block = 0
    /\ end_block = 0
    /\ network_thread = 1
    /\ retrieve_block_hash_pool = ThreadPool(<<>>, {})
    /\ retrieve_block_data_pool = ThreadPool(<<>>, {})
    /\ compress_block_data_pool = ThreadPool(<<>>, {})
    /\ block_hash_ch = <<>>
    /\ block_data_ch = <<>>
    /\ block_compressed_ch = <<>>
    /\ retrieval_pc = "done"
    /\ compression_pc = "done"
    /\ main_pc = "off"
    /\ main_result = ""
    /\ blocks_stored = 0
    /\ cursor = 0
    /\ inbox = {}
    /\ num_writes = 0
    /\ hook_calls = <<>>
    /\ unflushed_writes = FALSE
    /\ download_results = <<>>
    /\ hash_results = <<>>
    /\ last_clear = 0

(***************************************************************************)
(* The packed block format: bytes are numbers 0..255, a byte string is a   *)
(* sequence of them, and position pos of the code is element pos + 1.      *)
(***************************************************************************)
U16Modulus == 65536
AsU16(x) == x % U16Modulus

\* a decoded number too large for the widths the model computes with: every
\* value of 2^24 or more is read as Huge
Huge == 16777216

\* v.to_be_bytes() on n bytes
RECURSIVE ToBeBytes(_, _)
ToBeBytes(v, n) ==
    IF n = 0 THEN <<>> ELSE ToBeBytes(v \div 256, n - 1) \o <<v % 256>>

\* uN::from_be_bytes(b)
FromBeBytes(b) ==
    LET n == Len(b)
        low == [i \in 1..3 |-> IF n - 3 + i >= 1 THEN b[n - 3 + i] ELSE 0]
    IN  IF \E i \in 1..(n - 3) : b[i] # 0
        THEN Huge
        ELSE (low[1] * 256 + low[2]) * 256 + low[3]

Slice(bytes, pos, n) == SubSeq(bytes, pos + 1, pos + n)

\* cursor.read_exact(&mut buf) at position pos: the n bytes, or an error
read_exact(bytes, pos, n) ==
    IF pos + n <= Len(bytes) THEN Some(Slice(bytes, pos, n)) ELSE None

RECURSIVE Flatten(_)
Flatten(ss) == IF ss = <<>> THEN <<>> ELSE Head(ss) \o Flatten(Tail(ss))

\* results of code that can panic
Returned(v) == <<TRUE, v>>
Panicked == <<FALSE>>
HasReturned(r) == r[1]
ValueOf(r) == r[2]

TXID_LEN == 8
SATS_LEN == 8
INPUT_SIZE == TXID_LEN + 4 + 2 + SATS_LEN
OUTPUT_SIZE == 8

(***************************************************************************)
(* BitcoinBlockFullBreakdown, as far as from_full_block reads it.  A txid  *)
(* is the number its first 8 bytes spell.                                  *)
(***************************************************************************)
FullInput(txid, vout, prevout) == [txid |-> txid, vout |-> vout, prevout |-> prevout]
Prevout(height, value) == [height |-> height, value |-> value]
FullTransaction(txid, vin, vout) == [txid |-> txid, vin |-> vin, vout |-> vout]
FullBlock(height, tx) == [height |-> height, tx |-> tx]

TxidPrefix(txid) == ToBeBytes(txid, TXID_LEN)

\* every non-coinbase input names its transaction and output and carries its
\* resolved prevout
ValidFullBlock(block) ==
    /\ Len(block.tx) >= 1
    /\ \A i \in 2..Len(block.tx) :
        \A j \in 1..Len(block.tx[i].vin) :
            LET input == block.tx[i].vin[j] IN
            IsSome(input.txid) /\ IsSome(input.vout) /\ IsSome(input.prevout)

\* one input of from_full_block: txin, block height, vout as u16, sats
PackInput(input) ==
    TxidPrefix(Unwrap(input.txid))
        \o ToBeBytes(Unwrap(input.prevout).height, 4)
        \o ToBeBytes(AsU16(Unwrap(input.vout)), 2)
        \o ToBeBytes(Unwrap(input.prevout).value, SATS_LEN)

PackTransaction(tx) ==
    TxidPrefix(tx.txid)
        \o Flatten([j \in 1..Len(tx.vin) |-> PackInput(tx.vin[j])])
        \o Flatten([j \in 1..Len(tx.vout) |-> ToBeBytes(tx.vout[j], SATS_LEN)])

\* the (inputs_len, outputs_len) directory
PackDirectory(txs) ==
    Flatten([i \in 1..Len(txs) |->
                ToBeBytes(AsU16(Len(txs[i].vin)), 2)
                    \o ToBeBytes(AsU16(Len(txs[i].vout)), 2)])

\* LazyBlock::new(bytes)
LazyBlock_new(bytes) == [bytes |-> bytes, tx_len |-> FromBeBytes(Slice(bytes, 0, 2))]

\* LazyBlock::from_full_block: Ok(LazyBlock), or a panic on the unwrap of a
\* missing txid, vout or prevout
LazyBlock_from_full_block(block) ==
    LET txs == Tail(block.tx) IN
    IF ~ValidFullBlock(block) THEN Panicked
    ELSE Returned(LazyBlock_new(
            ToBeBytes(AsU16(Len(block.tx)) - 1, 2)
                \o PackDirectory(txs)
                \o TxidPrefix(block.tx[1].txid)
                \o ToBeBytes(SumValues(block.tx[1].vout), SATS_LEN)
                \o Flatten([i \in 1..Len(txs) |-> PackTransaction(txs[i])])))

(***************************************************************************)
(* The lazy view: LazyBlock's readers over the packed bytes.               *)
(***************************************************************************)
\* u16 arithmetic: a result past u16::MAX panics in a build with overflow
\* checks and wraps in a build without
CheckedU16(raw) ==
    IF raw < U16Modulus THEN Returned(raw)
    ELSE IF overflow_checks THEN Panicked ELSE Returned(AsU16(raw))

\* (2 + self.tx_len * 2 * 2) as usize
LazyBlock_get_coinbase_data_pos(lb) == CheckedU16(2 + lb.tx_len * 2 * 2)

\* &self.bytes[pos..pos + TXID_LEN], as the number the bytes spell
LazyBlock_get_coinbase_txid(lb) ==
    LET pos == LazyBlock_get_coinbase_data_pos(lb) IN
    IF ~HasReturned(pos) \/ ValueOf(pos) + TXID_LEN > Len(lb.bytes) THEN Panicked
    ELSE Returned(FromBeBytes(Slice(lb.bytes, ValueOf(pos), TXID_LEN)))

\* get_u64_at_pos(get_coinbase_data_pos() + TXID_LEN)
LazyBlock_get_coinbase_sats(lb) ==
    LET pos == LazyBlock_get_coinbase_data_pos(lb) IN
    IF ~HasReturned(pos) \/ ValueOf(pos) + TXID_LEN + SATS_LEN > Len(lb.bytes)
    THEN Panicked
    ELSE Returned(FromBeBytes(Slice(lb.bytes, ValueOf(pos) + TXID_LEN, SATS_LEN)))

LazyBlock_get_transactions_data_pos(lb) ==
    LET pos == LazyBlock_get_coinbase_data_pos(lb) IN
    IF HasReturned(pos) THEN Returned(ValueOf(pos) + TXID_LEN + SATS_LEN) ELSE Panicked

\* let inputs_len_pos = (2 + index * 2 * 2) as usize
inputs_len_pos(index) == CheckedU16(2 + index * 2 * 2)

\* (inputs, outputs, size) of directory entry `index`
LazyBlock_get_transaction_format(lb, index) ==
    LET pos == inputs_len_pos(index) IN
    IF ~HasReturned(pos) \/ ValueOf(pos) + 4 > Len(lb.bytes)
    THEN Panicked
    ELSE LET inputs == FromBeBytes(Slice(lb.bytes, ValueOf(pos), 2))
             outputs == FromBeBytes(Slice(lb.bytes, ValueOf(pos) + 2, 2))
         IN  Returned([inputs |-> inputs, outputs |-> outputs,
                       size |-> TXID_LEN + inputs * INPUT_SIZE + outputs * OUTPUT_SIZE])

\* one input read by get_lazy_transaction_at_pos
UnpackInput(bytes, pos) ==
    LazyBlockTransactionInput(
        FromBeBytes(Slice(bytes, pos, TXID_LEN)),
        FromBeBytes(Slice(bytes, pos + TXID_LEN, 4)),
        FromBeBytes(Slice(bytes, pos + TXID_LEN + 4, 2)),
        FromBeBytes(Slice(bytes, pos + TXID_LEN + 4 + 2, SATS_LEN)))

\* get_lazy_transaction_at_pos with the cursor at pos: every read_exact is
\* followed by expect("data corrupted")
LazyBlock_get_lazy_transaction_at_pos(lb, pos, txid, inputs_len, outputs_len) ==
    LET outputs_pos == pos + inputs_len * INPUT_SIZE IN
    IF (inputs_len > 0 \/ outputs_len > 0)
            /\ outputs_pos + outputs_len * OUTPUT_SIZE > Len(lb.bytes)
    THEN Panicked
    ELSE Returned(LazyBlockTransaction(
            txid,
            [j \in 1..inputs_len |-> UnpackInput(lb.bytes, pos + (j - 1) * INPUT_SIZE)],
            [j \in 1..outputs_len |->
                FromBeBytes(Slice(lb.bytes, outputs_pos + (j - 1) * OUTPUT_SIZE,
                                  OUTPUT_SIZE))]))

\* `let _ = cursor.read_exact(&mut txid)`: the 8 bytes at pos, or the zeroed
\* buffer when fewer than 8 bytes are left
ReadTxid(bytes, pos) ==
    IF IsSome(read_exact(bytes, pos, TXID_LEN))
    THEN Unwrap(read_exact(bytes, pos, TXID_LEN))
    ELSE [i \in 1..TXID_LEN |-> 0]

\* the transaction whose txid starts at pos, with directory entry `index`
LazyTransactionAt(lb, pos, index) ==
    LET format == LazyBlock_get_transaction_format(lb, index) IN
    IF ~HasReturned(format) THEN Panicked
    ELSE LazyBlock_get_lazy_transaction_at_pos(
            lb, Min({pos + TXID_LEN, Len(lb.bytes)}),
            FromBeBytes(ReadTxid(lb.bytes, pos)),
            ValueOf(format).inputs, ValueOf(format).outputs)

\* LazyBlockTransactionIterator::next, repeated until it returns None: the
\* transactions read, or a panic
RECURSIVE LazyBlockTransactionIterator(_, _, _)
LazyBlockTransactionIterator(lb, tx_index, cumulated_offset) ==
    IF tx_index >= lb.tx_len THEN Returned(<<>>)
    ELSE LET data_pos == LazyBlock_get_transactions_data_pos(lb)
             format == LazyBlock_get_transaction_format(lb, tx_index)
         IN  IF ~HasReturned(data_pos) \/ ~HasReturned(format) THEN Panicked
             ELSE LET tx == LazyTransactionAt(lb, ValueOf(data_pos) + cumulated_offset,
                                              tx_index)
                      rest == LazyBlockTransactionIterator(
                                lb, tx_index + 1, cumulated_offset + ValueOf(format).size)
                  IN  IF ~HasReturned(tx) \/ ~HasReturned(rest) THEN Panicked
                      ELSE Returned(<<ValueOf(tx)>> \o ValueOf(rest))

LazyBlock_iter_tx(lb) == LazyBlockTransactionIterator(lb, 0, 0)

\* the loop of find_and_serialize_transaction_with_txid from index i on; its
\* body runs before tx_len is looked at
RECURSIVE FindFrom(_, _, _, _)
FindFrom(lb, searched_txid, i, cumulated_offset) ==
    LET data_pos == LazyBlock_get_transactions_data_pos(lb)
        format == LazyBlock_get_transaction_format(lb, i)
    IN  IF ~HasReturned(data_pos) \/ ~HasReturned(format) THEN Panicked
        ELSE LET pos == ValueOf(data_pos) + cumulated_offset IN
             IF searched_txid = ReadTxid(lb.bytes, pos)
             THEN LET tx == LazyTransactionAt(lb, pos, i) IN
                  IF HasReturned(tx) THEN Returned(Some(ValueOf(tx))) ELSE Panicked
             ELSE IF i + 1 >= lb.tx_len THEN Returned(None)
                  ELSE FindFrom(lb, searched_txid, i + 1,
                                cumulated_offset + ValueOf(format).size)

LazyBlock_find_and_serialize_transaction_with_txid(lb, searched_txid) ==
    FindFrom(lb, searched_txid, 0, 0)

(***************************************************************************)
(* The eager decoder CompactedBlock::deserialize.  It returns Ok(block),   *)
(* here Returned(Some(block)); Err, here Returned(None), when a read_exact *)
(* followed by `?` finds too few bytes; and panics when a length cannot be *)
(* read (expect("corrupted data")) or is too large to allocate for.        *)
(***************************************************************************)
CompactedBlock(coinbase_txid, coinbase_sats, txs) ==
    [coinbase_txid |-> coinbase_txid, coinbase_sats |-> coinbase_sats, txs |-> txs]

\* n items of `size` bytes from pos on: are they all there
ItemsReadable(bytes, pos, n, size) == pos + n * size <= Len(bytes)

\* an 8-byte usize length at pos
ReadLength(bytes, pos) ==
    IF IsSome(read_exact(bytes, pos, 8))
    THEN Returned(FromBeBytes(Unwrap(read_exact(bytes, pos, 8))))
    ELSE Panicked

\* one transaction of the eager layout at pos: txid, inputs_len, the inputs,
\* outputs_len, the outputs; with the position after it
DeserializeTransaction(bytes, pos) ==
    LET inputs_len == ReadLength(bytes, pos + TXID_LEN)
        inputs_pos == pos + TXID_LEN + 8
    IN
    IF ~IsSome(read_exact(bytes, pos, TXID_LEN)) THEN Returned(None)
    ELSE IF ~HasReturned(inputs_len) \/ ValueOf(inputs_len) >= Huge THEN Panicked
    ELSE IF ~ItemsReadable(bytes, inputs_pos, ValueOf(inputs_len), INPUT_SIZE)
         THEN Returned(None)
    ELSE LET outputs_len_pos == inputs_pos + ValueOf(inputs_len) * INPUT_SIZE
             outputs_len == ReadLength(bytes, outputs_len_pos)
             outputs_pos == outputs_len_pos + 8
         IN
         IF ~HasReturned(outputs_len) \/ ValueOf(outputs_len) >= Huge THEN Panicked
         ELSE IF ~ItemsReadable(bytes, outputs_pos, ValueOf(outputs_len), OUTPUT_SIZE)
              THEN Returned(None)
         ELSE Returned(Some(
                [tx |-> LazyBlockTransaction(
                    FromBeBytes(Slice(bytes, pos, TXID_LEN)),
                    [j \in 1..ValueOf(inputs_len) |->
                        UnpackInput(bytes, inputs_pos + (j - 1) * INPUT_SIZE)],
                    [j \in 1..ValueOf(outputs_len) |->
                        FromBeBytes(Slice(bytes, outputs_pos + (j - 1) * OUTPUT_SIZE,
                                          OUTPUT_SIZE))]),
                 next |-> outputs_pos + ValueOf(outputs_len) * OUTPUT_SIZE]))

\* the `for _ in 0..tx_len` loop, n transactions left to read from pos
RECURSIVE DeserializeTransactions(_, _, _)
DeserializeTransactions(bytes, pos, n) ==
    IF n = 0 THEN Returned(Some(<<>>))
    ELSE LET first == DeserializeTransaction(bytes, pos) IN
         IF ~HasReturned(first) THEN Panicked
         ELSE IF ~IsSome(ValueOf(first)) THEN Returned(None)
         ELSE LET rest == DeserializeTransactions(
                            bytes, Unwrap(ValueOf(first)).next, n - 1)
              IN  IF ~HasReturned(rest) THEN Panicked
                  ELSE IF ~IsSome(ValueOf(rest)) THEN Returned(None)
                  ELSE Returned(Some(<<Unwrap(ValueOf(first)).tx>>
                                        \o Unwrap(ValueOf(rest))))

CompactedBlock_deserialize(bytes) ==
    LET tx_len == ReadLength(bytes, TXID_LEN + SATS_LEN) IN
    IF ~IsSome(read_exact(bytes, 0, TXID_LEN + SATS_LEN)) THEN Returned(None)
    ELSE IF ~HasReturned(tx_len) \/ ValueOf(tx_len) >= Huge THEN Panicked
    ELSE LET txs == DeserializeTransactions(bytes, TXID_LEN + SATS_LEN + 8,
                                            ValueOf(tx_len))
         IN  IF ~HasReturned(txs) THEN Panicked
             ELSE IF ~IsSome(ValueOf(txs)) THEN Returned(None)
             ELSE Returned(Some(CompactedBlock(
                    FromBeBytes(Slice(bytes, 0, TXID_LEN)),
                    FromBeBytes(Slice(bytes, TXID_LEN, SATS_LEN)),
                    Unwrap(ValueOf(txs)))))

\* what find_block_at_block_height does with bytes it found:
\* CompactedBlock::deserialize(..).unwrap()
DeserializeUnwrap(bytes) ==
    LET res == CompactedBlock_deserialize(bytes) IN
    IF HasReturned(res) /\ IsSome(ValueOf(res)) THEN Returned(Unwrap(ValueOf(res)))
    ELSE Panicked

(***************************************************************************)
(* Packing a full block and reading the bytes back.                        *)
(***************************************************************************)
\* inputs of the full blocks: output indexes 0, 1 and the first one past
\* u16::MAX, with and without the resolved prevout
FullInputs ==
    {FullInput(Some(3), Some(vout), prevout) :
        vout \in {0, 1, U16Modulus}, prevout \in {Some(Prevout(1, 2)), None}}

FullInputLists ==
    {<<input>> : input \in FullInputs}
    \cup (IF MaxInputs >= 2
          THEN {<<FullInput(Some(3), Some(0), Some(Prevout(1, 2))), input>> :
                    input \in FullInputs}
          ELSE {})

FullTransactions ==
    {FullTransaction(txid, vin, vout) :
        txid \in {5, 6}, vin \in FullInputLists, vout \in {<<1>>, <<1, 2>>}}

RECURSIVE SeqsUpTo(_, _)
SeqsUpTo(S, n) ==
    IF n = 0 THEN {<<>>}
    ELSE SeqsUpTo(S, n - 1)
            \cup {Append(q, x) : q \in {r \in SeqsUpTo(S, n - 1) : Len(r) = n - 1}, x \in S}

FullBlocks ==
    {FullBlock(2, <<FullTransaction(4, <<>>, coinbase_vout)>> \o txs) :
        coinbase_vout \in {<<2>>, <<2, 1>>},
        txs \in SeqsUpTo(FullTransactions, MaxTransactions)}

\* what the readers return for a block, all in one record
LazyView(lb, block) ==
    [coinbase_txid |-> LazyBlock_get_coinbase_txid(lb),
     coinbase_sats |-> LazyBlock_get_coinbase_sats(lb),
     txs |-> LazyBlock_iter_tx(lb),
     found |-> [i \in 1..(Len(block.tx) - 1) |->
                    LazyBlock_find_and_serialize_transaction_with_txid(
                        lb, TxidPrefix(block.tx[i + 1].txid))]]

\* LazyBlock::from_full_block(&full_block)
Pack ==
    /\ packed = None
    /\ packed' = Some(LazyBlock_from_full_block(full_block))
    /\ UNCHANGED <<overflow_checks, full_block, lazy_read, eager_read,
                   position_query, position_result>>
    /\ UNCHANGED <<storeVars, traversalVars, pipelineVars, storeOpVars, inscriptionVars>>

\* get_coinbase_txid, get_coinbase_sats, iter_tx and
\* find_and_serialize_transaction_with_txid on the packed bytes
ReadLazy ==
    /\ IsSome(packed)
    /\ HasReturned(Unwrap(packed))
    /\ lazy_read = None
    /\ lazy_read' = Some(LazyView(ValueOf(Unwrap(packed)), full_block))
    /\ UNCHANGED <<overflow_checks, full_block, packed, eager_read,
                   position_query, position_result>>
    /\ UNCHANGED <<storeVars, traversalVars, pipelineVars, storeOpVars, inscriptionVars>>

\* find_block_at_block_height on the same bytes:
\* CompactedBlock::deserialize(..).unwrap()
ReadEager ==
    /\ IsSome(packed)
    /\ HasReturned(Unwrap(packed))
    /\ eager_read = None
    /\ eager_read' = Some(DeserializeUnwrap(ValueOf(Unwrap(packed)).bytes))
    /\ UNCHANGED <<overflow_checks, full_block, packed, lazy_read,
                   position_query, position_result>>
    /\ UNCHANGED <<storeVars, traversalVars, pipelineVars, storeOpVars, inscriptionVars>>

\* no position is asked for
NoPositions ==
    /\ position_query = [tx_len |-> 0, index |-> 0]
    /\ position_result = None

InitCodec ==
    /\ overflow_checks \in BOOLEAN
    /\ full_block \in FullBlocks
    /\ packed = None
    /\ lazy_read = None
    /\ eager_read = None
    /\ NoPositions

\* u16 values: the ends of the range and the values around those at which
\* four times the value passes u16::MAX
U16Samples == {0, 1, 2, 16382, 16383, 16384, 16385, 32767, 32768, 65535}

\* get_coinbase_data_pos of a block with this tx_len, and the position that
\* get_transaction_format computes for this index
ComputePositions ==
    /\ position_result = None
    /\ position_result' =
            Some([coinbase_data_pos |->
                    LazyBlock_get_coinbase_data_pos(
                        [bytes |-> <<>>, tx_len |-> position_query.tx_len]),
                  inputs_len_pos |-> inputs_len_pos(position_query.index)])
    /\ UNCHANGED <<overflow_checks, full_block, packed, lazy_read, eager_read,
                   position_query>>
    /\ UNCHANGED <<storeVars, traversalVars, pipelineVars, storeOpVars, inscriptionVars>>

\* a tx_len and an index to compute with, in either build
InitPositions ==
    /\ overflow_checks \in BOOLEAN
    /\ full_block = FullBlock(0, <<>>)
    /\ packed = None
    /\ lazy_read = None
    /\ eager_read = None
    /\ position_query \in [tx_len : U16Samples, index : U16Samples]
    /\ position_result = None

\* no block is packed
NoCodec ==
    /\ overflow_checks = FALSE
    /\ full_block = FullBlock(0, <<>>)
    /\ packed = None
    /\ lazy_read = None
    /\ eager_read = None
    /\ NoPositions

(***************************************************************************)
(* The block store under inserts, range deletes and lookups with retry.    *)
(* The values stored are packed bytes, here LazyBlock::new of them.        *)
(***************************************************************************)
\* the heights `for block_height in start_block..end_block` would visit
RemovedHeightsExclusive(lo, hi) == lo..(hi - 1)

\* for block_height in start_block..=end_block
RemovedHeights(lo, hi) == lo..hi

\* the bytes put under metadata::last_insert, (start_block - 1).to_be_bytes(),
\* as find_last_block_inserted reads them; at start_block = 0 the subtraction
\* wraps to u32::MAX in a build without overflow checks
WatermarkAfterDelete(lo) ==
    IF lo > 0 THEN Some(lo - 1)
    ELSE Some(FromBeBytes(<<255, 255, 255, 255>>))

\* delete_blocks_in_block_range: the removes, then the watermark; with
\* overflow checks the subtraction panics at start_block = 0, after the removes
delete_blocks_in_block_range(lo, hi) ==
    /\ blocks_db' = [k \in DOMAIN blocks_db \ RemovedHeights(lo, hi)
                        |-> blocks_db[k]]
    /\ last_insert' = IF lo = 0 /\ overflow_checks
                      THEN last_insert
                      ELSE WatermarkAfterDelete(lo)

\* the blocks written in this specification: a coinbase alone, and a coinbase
\* with one transaction
PackedBlocks ==
    {ValueOf(LazyBlock_from_full_block(FullBlock(1, txs))) :
        txs \in {<<FullTransaction(4, <<>>, <<2>>)>>,
                 <<FullTransaction(4, <<>>, <<2>>),
                   FullTransaction(5, <<FullInput(Some(3), Some(0), Some(Prevout(0, 2)))>>,
                                   <<1>>)>>}}

NoPrev == [op |-> "none", lo |-> 0, hi |-> 0, block |-> None, full |-> FALSE]
NoOp == [op |-> "none", lo |-> 0, hi |-> 0, block |-> None, full |-> FALSE,
         before |-> [blocks_db |-> <<>>, last_insert |-> None], prev |-> NoPrev]

\* the record of an operation made now; operations made while a lookup runs
\* are not recorded
Operation(op, lo, hi, block) ==
    IF lookup.pc # "idle" THEN NoOp
    ELSE [op |-> op, lo |-> lo, hi |-> hi, block |-> block,
          full |-> \A k \in lo..hi : k \in DOMAIN blocks_db,
          before |-> [blocks_db |-> blocks_db, last_insert |-> last_insert],
          prev |-> [op |-> last_op.op, lo |-> last_op.lo, hi |-> last_op.hi,
                    block |-> last_op.block, full |-> last_op.full]]

InsertEntry ==
    /\ \E block_height \in Heights, lazy_block \in PackedBlocks :
        /\ insert_entry_in_blocks(block_height, lazy_block)
        /\ last_op' = Operation("insert", block_height, block_height, Some(lazy_block))
    /\ UNCHANGED <<lookup, codecVars, traversalVars, pipelineVars, inscriptionVars>>

DeleteRange ==
    /\ \E lo \in Heights, hi \in Heights :
        /\ lo <= hi
        /\ delete_blocks_in_block_range(lo, hi)
        /\ last_op' = Operation("delete", lo, hi, None)
    /\ UNCHANGED <<lookup, codecVars, traversalVars, pipelineVars, inscriptionVars>>

\* the retry count the callers pass
retry == 3

\* variant of the exit test that gives up one attempt earlier
RetriesExhaustedInclusive(attempt, retries) == attempt >= retries

\* if attempt > retry { return None; }
RetriesExhausted(attempt, retries) == attempt > retries

IdleLookup == [pc |-> "idle", kind |-> "lazy", height |-> 0, attempt |-> 0,
               reads |-> 0, result |-> None]

\* what a lookup returns for bytes it found: LazyBlock::new(res), or
\* CompactedBlock::deserialize(..).unwrap()
FoundBlock(kind, lazy_block) ==
    IF kind = "lazy" THEN Returned(Some(LazyBlock_new(lazy_block.bytes)))
    ELSE LET res == DeserializeUnwrap(lazy_block.bytes) IN
         IF HasReturned(res) THEN Returned(Some(ValueOf(res))) ELSE Panicked

StartLookup ==
    /\ lookup.pc = "idle"
    /\ \E kind \in {"lazy", "eager"}, block_height \in Heights :
        lookup' = [pc |-> "running", kind |-> kind, height |-> block_height,
                   attempt |-> 0, reads |-> 0, result |-> None]
    /\ last_op' = NoOp
    /\ UNCHANGED <<storeVars, codecVars, traversalVars, pipelineVars, inscriptionVars>>

\* one turn of the loop: a read of the store, and after a miss the count, the
\* one-second sleep and the exit test
LookupAttempt ==
    /\ lookup.pc = "running"
    /\ IF lookup.height \in DOMAIN blocks_db
       THEN lookup' = [lookup EXCEPT !.pc = "done", !.reads = @ + 1,
                            !.result = FoundBlock(lookup.kind, blocks_db[lookup.height])]
       ELSE lookup' = [lookup EXCEPT
                            !.attempt = @ + 1, !.reads = @ + 1,
                            !.pc = IF RetriesExhausted(lookup.attempt + 1, retry)
                                   THEN "done" ELSE "running",
                            !.result = IF RetriesExhausted(lookup.attempt + 1, retry)
                                       THEN Returned(None) ELSE None]
    /\ UNCHANGED <<last_op, storeVars, codecVars, traversalVars, pipelineVars,
                   inscriptionVars>>

\* no operation recorded, no lookup running
NoStoreOps ==
    /\ last_op = NoOp
    /\ lookup = IdleLookup

\* the table `inscriptions` as initialize_hord_db creates it, and no query
NoInscriptions ==
    /\ inscriptions = <<>>
    /\ inscription_query = None
    /\ inscription_insert = None

(***************************************************************************)
(* The inscription store: the table `inscriptions` of hord.sqlite, whose   *)
(* primary key is inscription_id.  A statement that fails is logged and    *)
(* changes nothing.                                                        *)
(***************************************************************************)
InscriptionIds == 1..MaxInscriptionId
BlockHashes == {"0xa", "0xb"}
BlockIdentifiers == {[index |-> i, hash |-> h] : i \in 0..1, h \in BlockHashes}
\* a satpoint is an outpoint followed by the two characters of ":0"
Satpoints == {<<"p", ":", "0">>, <<"q", ":", "0">>}
OrdinalInscriptionRevealData ==
    [inscription_id : InscriptionIds, satpoint_post_inscription : Satpoints,
     ordinal_number : {7}, inscription_number : 0..MaxInscriptionNumber]

\* the row INSERT INTO inscriptions writes
InscriptionRow(inscription_data, block) ==
    [block_height |-> block.index,
     block_hash |-> block.hash,
     outpoint_to_watch |->
        SubSeq(inscription_data.satpoint_post_inscription, 1,
               Len(inscription_data.satpoint_post_inscription) - 2),
     ordinal_number |-> inscription_data.ordinal_number,
     inscription_number |-> inscription_data.inscription_number,
     offset |-> 0]

\* variant of the insert that replaces the row of a primary key that exists
store_or_replace_inscription(inscription_data, block) ==
    (inscription_data.inscription_id :> InscriptionRow(inscription_data, block))
        @@ inscriptions

\* store_new_inscription: the INSERT; on a primary key that exists it fails
\* and the error is logged
store_new_inscription(inscription_data, block) ==
    IF inscription_data.inscription_id \in DOMAIN inscriptions
    THEN inscriptions
    ELSE (inscription_data.inscription_id :> InscriptionRow(inscription_data, block))
            @@ inscriptions

\* UPDATE inscriptions SET outpoint_to_watch = ?, offset = ? WHERE inscription_id = ?
update_transfered_inscription(inscription_id, outpoint_post_transfer, offset) ==
    [id \in DOMAIN inscriptions |->
        IF id = inscription_id
        THEN [inscriptions[id] EXCEPT !.outpoint_to_watch = outpoint_post_transfer,
                                      !.offset = offset]
        ELSE inscriptions[id]]

\* UPDATE inscriptions SET inscription_number = ? WHERE inscription_id = ?
patch_inscription_number(inscription_id, number) ==
    [id \in DOMAIN inscriptions |->
        IF id = inscription_id
        THEN [inscriptions[id] EXCEPT !.inscription_number = number]
        ELSE inscriptions[id]]

\* DELETE FROM inscriptions WHERE block_height >= ?1 AND block_height <= ?2
delete_inscriptions_in_block_range(lo, hi) ==
    [id \in {i \in DOMAIN inscriptions :
                ~(inscriptions[i].block_height >= lo /\ inscriptions[i].block_height <= hi)}
        |-> inscriptions[id]]

\* DELETE FROM inscriptions WHERE inscription_id = ?1
remove_entry_from_inscriptions(inscription_id) ==
    [id \in DOMAIN inscriptions \ {inscription_id} |-> inscriptions[id]]

\* the rows of SELECT ... WHERE inscription_id = ?
RowsWithId(inscription_id) ==
    IF inscription_id \in DOMAIN inscriptions THEN <<inscriptions[inscription_id]>> ELSE <<>>

\* variant of the lookup that does not compare the block hash
find_inscription_with_id_any_hash(inscription_id, block_hash) ==
    LET rows == RowsWithId(inscription_id) IN
    IF rows = <<>> THEN None
    ELSE Some(TraversalResult(rows[1].inscription_number, rows[1].ordinal_number, 0))

\* find_inscription_with_id: the first row whose block_hash equals the one
\* given, as a TraversalResult with transfers 0
find_inscription_with_id(inscription_id, block_hash) ==
    LET rows == RowsWithId(inscription_id)
        matching == {i \in 1..Len(rows) : rows[i].block_hash = block_hash}
    IN  IF matching = {} THEN None
        ELSE Some(TraversalResult(rows[Min(matching)].inscription_number,
                                  rows[Min(matching)].ordinal_number, 0))

\* a call of store_new_inscription, kept with what it did; the slice
\* satpoint_post_inscription[0..len - 2] panics on fewer than two characters
StoreNewInscription ==
    /\ \E inscription_data \in OrdinalInscriptionRevealData, block \in BlockIdentifiers :
        /\ inscriptions' = store_new_inscription(inscription_data, block)
        /\ inscription_insert' =
            Some([inscription_id |-> inscription_data.inscription_id,
                  existed |-> inscription_data.inscription_id \in DOMAIN inscriptions,
                  other_row |->
                    /\ inscription_data.inscription_id \in DOMAIN inscriptions
                    /\ inscriptions[inscription_data.inscription_id]
                            # InscriptionRow(inscription_data, block),
                  returned |-> Len(inscription_data.satpoint_post_inscription) >= 2,
                  parity |-> IF IsSome(inscription_insert)
                             THEN 1 - Unwrap(inscription_insert).parity ELSE 1])
    /\ UNCHANGED <<inscription_query, storeVars, traversalVars, pipelineVars, codecVars,
                   storeOpVars>>

UpdateTransferedInscription ==
    /\ \E inscription_id \in InscriptionIds, outpoint_post_transfer \in {<<"r">>},
          offset \in {1} :
        inscriptions' =
            update_transfered_inscription(inscription_id, outpoint_post_transfer, offset)
    /\ UNCHANGED <<inscription_query, inscription_insert, storeVars, traversalVars, pipelineVars, codecVars,
                   storeOpVars>>

PatchInscriptionNumber ==
    /\ \E inscription_id \in InscriptionIds, number \in 0..MaxInscriptionNumber :
        inscriptions' = patch_inscription_number(inscription_id, number)
    /\ UNCHANGED <<inscription_query, inscription_insert, storeVars, traversalVars, pipelineVars, codecVars,
                   storeOpVars>>

DeleteInscriptionsInBlockRange ==
    /\ \E lo \in 0..1, hi \in 0..1 :
        /\ lo <= hi
        /\ inscriptions' = delete_inscriptions_in_block_range(lo, hi)
    /\ UNCHANGED <<inscription_query, inscription_insert, storeVars, traversalVars, pipelineVars, codecVars,
                   storeOpVars>>

RemoveEntryFromInscriptions ==
    /\ \E inscription_id \in InscriptionIds :
        inscriptions' = remove_entry_from_inscriptions(inscription_id)
    /\ UNCHANGED <<inscription_query, inscription_insert, storeVars, traversalVars, pipelineVars, codecVars,
                   storeOpVars>>

\* a call of find_inscription_with_id, kept with what it returned
FindInscriptionWithId ==
    /\ \E inscription_id \in InscriptionIds, block_hash \in BlockHashes :
        inscription_query' =
            Some([inscription_id |-> inscription_id, block_hash |-> block_hash,
                  result |-> find_inscription_with_id(inscription_id, block_hash)])
    /\ UNCHANGED <<inscriptions, inscription_insert, storeVars, traversalVars,
                   pipelineVars, codecVars, storeOpVars>>

\* a table `inscriptions` with one row, and no query
OneInscription ==
    /\ inscriptions =
        (1 :> InscriptionRow(
                [inscription_id |-> 1, satpoint_post_inscription |-> <<"p", ":", "0">>,
                 ordinal_number |-> 7, inscription_number |-> 0],
                [index |-> 1, hash |-> "0xa"]))
    /\ inscription_query = None
    /\ inscription_insert = None

vars == <<storeVars, traversalVars, pipelineVars, otherVars>>

InitStore ==
    /\ blocks_db = <<>>
    /\ last_insert = None

InitTraversal ==
    /\ traversals_cache = <<>>
    /\ block_identifier = 0
    /\ transaction_identifier = 0
    /\ inscription_number = 0
    /\ ordinal_offset = 0
    /\ ordinal_block_number = 0
    /\ tx_cursor = TxCursor(0, 0)
    /\ hops = 0
    /\ pc = "idle"
    /\ result = None
    /\ outcome = "None"
    /\ last_hop = NoHop
    /\ reads = <<>>
    /\ history = <<>>

TraversalInit == InitStore /\ InitTraversal /\ NoPipeline /\ NoCodec /\ NoStoreOps /\ OneInscription
TraversalNext == StoreBlock \/ StartTraversal \/ Iterate
SpecTraversal == TraversalInit /\ [][TraversalNext]_vars

PipelineInit == InitStore /\ InitTraversal /\ InitPipeline /\ NoCodec /\ NoStoreOps /\ NoInscriptions
PipelineNext ==
    \/ HashJobStart \/ HashJobSend \/ HashJobPanic
    \/ RetrievalRecv \/ RetrievalJoin \/ DownloadJobStart \/ DownloadJobSend
    \/ CompressionRecv \/ CompressionJoin \/ CompressJobStart \/ CompressJobSend
    \/ MainRecv \/ MainDequeue \/ MainCheck \/ MainJoin
SpecPipeline == PipelineInit /\ [][PipelineNext]_vars

\* fair scheduling: every pool worker and every thread that can take a step
\* eventually takes one; a job that has its answer ends one way or the other
PipelineFairness ==
    /\ WF_vars(HashJobStart) /\ WF_vars(HashJobSend \/ HashJobPanic)
    /\ WF_vars(RetrievalRecv) /\ WF_vars(RetrievalJoin)
    /\ WF_vars(DownloadJobStart) /\ WF_vars(DownloadJobSend)
    /\ WF_vars(CompressionRecv) /\ WF_vars(CompressionJoin)
    /\ WF_vars(CompressJobStart) /\ WF_vars(CompressJobSend)
    /\ WF_vars(MainRecv) /\ WF_vars(MainDequeue) /\ WF_vars(MainCheck)
    /\ WF_vars(MainJoin)
SpecPipelineFair == PipelineInit /\ [][PipelineNext]_vars /\ PipelineFairness

CodecInit == InitStore /\ InitTraversal /\ NoPipeline /\ InitCodec /\ NoStoreOps /\ NoInscriptions
CodecNext == Pack \/ ReadLazy \/ ReadEager
SpecCodec == CodecInit /\ [][CodecNext]_vars

PositionsInit ==
    InitStore /\ InitTraversal /\ NoPipeline /\ InitPositions /\ NoStoreOps /\ NoInscriptions
PositionsNext == ComputePositions
SpecPositions == PositionsInit /\ [][PositionsNext]_vars

HousekeepingInit ==
    InitTraversal /\ InitHousekeeping /\ NoCodec /\ NoStoreOps /\ NoInscriptions
HousekeepingNext == StoreBelowActivation
SpecHousekeeping == HousekeepingInit /\ [][HousekeepingNext]_vars

InscriptionsInit ==
    InitStore /\ InitTraversal /\ NoPipeline /\ NoCodec /\ NoStoreOps /\ NoInscriptions
InscriptionsNext ==
    \/ StoreNewInscription \/ UpdateTransferedInscription \/ PatchInscriptionNumber
    \/ DeleteInscriptionsInBlockRange \/ RemoveEntryFromInscriptions
    \/ FindInscriptionWithId
SpecInscriptions == InscriptionsInit /\ [][InscriptionsNext]_vars

\* an empty store, in a build with or without overflow checks
StoreInit ==
    /\ InitStore /\ InitTraversal /\ NoPipeline /\ NoStoreOps /\ NoInscriptions
    /\ overflow_checks \in BOOLEAN
    /\ full_block = FullBlock(0, <<>>)
    /\ packed = None
    /\ lazy_read = None
    /\ eager_read = None
    /\ NoPositions
StoreNext == InsertEntry \/ DeleteRange \/ StartLookup \/ LookupAttempt
SpecStore == StoreInit /\ [][StoreNext]_vars


(***************************************************************************)
(* Properties of the traversal (checked under SpecTraversal).              *)
(***************************************************************************)
Walked == pc = "walking" /\ pc' = "walking"

\* the data invariants of the packed blocks: every input's prev_block_height
\* is below the height of its block, and every transaction's inputs sum to at
\* least its outputs
DataInvariants ==
    \A h \in DOMAIN blocks_db :
        \A i \in 1..Len(blocks_db[h].txs) :
            LET tx == blocks_db[h].txs[i] IN
            /\ \A j \in 1..Len(tx.inputs) : tx.inputs[j].block_height < h
            /\ SumValues(InputValues(tx.inputs)) >= SumValues(tx.outputs)

C4_ChosenInputCoversPosition ==
    (pc = "walking" /\ last_hop.kind # "none") =>
        /\ last_hop.position < last_hop.sats_in
        /\ ordinal_offset = last_hop.position - (last_hop.sats_in - last_hop.value)
        /\ 0 <= ordinal_offset
        /\ ordinal_offset < last_hop.value

TerminalOutcomes == {"Done", "Degenerate", "BlockMissing", "HopLimit"}
Ended == pc = "idle" /\ outcome # "None"

HopBounds ==
    /\ hops <= block_identifier + 1
    /\ Ended => ((outcome = "HopLimit") <=> (hops > block_identifier))
    /\ (Ended /\ outcome = "Done") =>
            /\ Unwrap(result).ok
            /\ 1 <= Unwrap(result).transfers
            /\ Unwrap(result).transfers <= block_identifier
    /\ Ended => (IsSome(result) /\ Unwrap(result).ok
                    <=> outcome \in {"Done", "Degenerate"})

AtCoinbase ==
    /\ ordinal_block_number \in DOMAIN blocks_db
    /\ get_coinbase_txid(blocks_db[ordinal_block_number]) = tx_cursor.txid

\* every call that ended with a number ended on a coinbase, at an offset
\* within its subsidy, with ordinal_number = starting_sat(h) + ordinal_offset
DoneOnCoinbase ==
    (Ended /\ outcome = "Done") =>
        /\ AtCoinbase
        /\ ordinal_offset < subsidy(ordinal_block_number)
        /\ result = Some(TraversalResult(inscription_number,
                starting_sat(ordinal_block_number) + ordinal_offset, hops))

\* a call aimed at the coinbase of a stored block h >= 1 with inscription
\* number n returned (n, starting_sat(h), 1)
DirectCoinbaseTarget ==
    (/\ Ended
     /\ block_identifier >= 1
     /\ block_identifier \in DOMAIN blocks_db
     /\ transaction_identifier = get_coinbase_txid(blocks_db[block_identifier]))
        => result = Some(TraversalResult(inscription_number,
                                         starting_sat(block_identifier), 1))

\* the cursor is on the coinbase of a stored block, within its subsidy
CursorInSubsidy ==
    /\ pc = "walking"
    /\ AtCoinbase
    /\ ordinal_offset < subsidy(ordinal_block_number)

EndsWithSubsidySat ==
    /\ pc' = "idle"
    /\ outcome' = "Done"
    /\ result' = Some(TraversalResult(inscription_number,
            starting_sat(ordinal_block_number) + ordinal_offset, hops + 1))

\* C6 as stated: when the cursor is the coinbase of block h and
\* ordinal_offset < subsidy(h), the call ends with ordinal_number =
\* starting_sat(h) + ordinal_offset; and a call aimed at the coinbase of a
\* stored block h >= 1 with inscription number n returns (n, starting_sat(h), 1).
C6_SubsidySat ==
    /\ []DoneOnCoinbase
    /\ [][CursorInSubsidy => EndsWithSubsidySat]_vars
    /\ []DirectCoinbaseTarget

\* C6 amended: the same, for a cursor that reaches the coinbase while the
\* iteration counter is still below block_identifier.index (the iteration
\* that looks at the coinbase is then within the hop limit).
C6_SubsidySatWithinHopLimit ==
    /\ []DoneOnCoinbase
    /\ [][(CursorInSubsidy /\ hops < block_identifier) => EndsWithSubsidySat]_vars
    /\ []DirectCoinbaseTarget

\* a call ended on a coinbase at an offset other than 0
C6_Witness ==
    /\ Ended
    /\ outcome = "Done"
    /\ ordinal_offset > 0
    /\ Unwrap(result).ordinal_number = starting_sat(ordinal_block_number) + ordinal_offset

\* the call at hand is a one-hop spend: block p holds only a coinbase, and the
\* target, in block h > p, has a single input that spends output 0 of that
\* coinbase with a value within subsidy(p)
OneHopSpend(h, p) ==
    /\ h \in DOMAIN blocks_db
    /\ p \in DOMAIN blocks_db
    /\ p < h
    /\ blocks_db[p].txs = <<>>
    /\ \E i \in 1..Len(blocks_db[h].txs) :
        LET tx == blocks_db[h].txs[i] IN
        /\ tx.txid = transaction_identifier
        /\ Len(tx.inputs) = 1
        /\ tx.inputs[1].txin = get_coinbase_txid(blocks_db[p])
        /\ tx.inputs[1].block_height = p
        /\ tx.inputs[1].vout = 0
        /\ tx.inputs[1].txin_value >= 1
        /\ tx.inputs[1].txin_value <= subsidy(p)

OneHopResult(p) == Some(TraversalResult(inscription_number, starting_sat(p), 2))

\* C7 as stated: a one-hop spend returns Ok with the caller's inscription
\* number, ordinal_number = starting_sat(p) and transfers = 2.
C7_OneHopSpend ==
    \A p \in Heights :
        (Ended /\ OneHopSpend(block_identifier, p)) => result = OneHopResult(p)

\* C7 amended: the same for a target in a block of height h >= 2.
C7_OneHopSpendAboveOne ==
    \A p \in Heights :
        (Ended /\ OneHopSpend(block_identifier, p) /\ block_identifier >= 2)
            => result = OneHopResult(p)

\* a one-hop spend from block 3 has returned
C7_Witness ==
    /\ Ended
    /\ block_identifier = 3
    /\ OneHopSpend(3, 2)
    /\ result = OneHopResult(2)

\* the last iteration resolved a fee range in a block whose only transaction
\* has one input (prev block p, value v): d is the offset beyond the subsidy
FeeRangeCase(p, v, d) ==
    /\ pc = "walking"
    /\ last_hop.kind = "fee"
    /\ last_hop.from_block \in DOMAIN blocks_db
    /\ LET txs == blocks_db[last_hop.from_block].txs IN
        /\ Len(txs) = 1
        /\ Len(txs[1].inputs) = 1
        /\ txs[1].inputs[1].block_height = p
        /\ txs[1].inputs[1].txin_value = v
        /\ d = last_hop.from_offset - subsidy(last_hop.from_block)
        /\ 0 <= d
        /\ d < TxFee(txs[1])

FeeOf(h) == TxFee(blocks_db[h].txs[1])

\* C8 as stated: the resolution leaves the traversal at block p with
\* ordinal_offset = d.
C8_FeeRangeOffset ==
    \A p \in Heights, v \in 0..MaxValue, d \in 0..MaxValue :
        FeeRangeCase(p, v, d) =>
            /\ ordinal_block_number = p
            /\ ordinal_offset = d

\* C8 amended: the resolution leaves the traversal at block p with
\* ordinal_offset = (v - f) + d, the transaction's outputs plus d.
C8_FeeRangeOffsetPastOutputs ==
    \A p \in Heights, v \in 0..MaxValue, d \in 0..MaxValue :
        FeeRangeCase(p, v, d) =>
            /\ ordinal_block_number = p
            /\ last_hop.position = (v - FeeOf(last_hop.from_block)) + d
            /\ ordinal_offset = (v - FeeOf(last_hop.from_block)) + d

\* a fee range was resolved in a transaction that has outputs
C8_Witness ==
    \E p \in Heights, v \in 0..MaxValue, d \in 0..MaxValue :
        /\ FeeRangeCase(p, v, d)
        /\ v - FeeOf(last_hop.from_block) > 0
        /\ ordinal_offset = (v - FeeOf(last_hop.from_block)) + d

\* two calls for the same transaction T of block h, the first of which walked
\* from T to the coinbase of block p and ended there
SecondTraversalOf(h, p) ==
    /\ Len(history) = 2
    /\ history[1].block_identifier = h
    /\ history[2].block_identifier = h
    /\ history[1].transaction_identifier = history[2].transaction_identifier
    /\ history[1].outcome = "Done"
    /\ history[1].reads = <<h, p>>
    /\ p # h

\* C9 as stated: the second call, using the same cache, reads block p not at
\* all.
C9_SecondTraversalSkipsPredecessor ==
    \A h \in Heights, p \in Heights :
        SecondTraversalOf(h, p) =>
            \A i \in 1..Len(history[2].reads) : history[2].reads[i] # p

\* C9 amended: the second call does not read block h, the block of T; it
\* reads block p once (a coinbase is never put in the cache) and returns what
\* the first call returned.
C9_SecondTraversalSkipsTargetBlock ==
    \A h \in Heights, p \in Heights :
        SecondTraversalOf(h, p) =>
            /\ history[2].reads = <<p>>
            /\ history[2].result = history[1].result

C9_Witness ==
    /\ Len(history) = 2
    /\ SecondTraversalOf(2, 1)
    /\ history[2].reads = <<1>>

\* C10 as stated: a call that reaches a transaction whose inputs sum to zero
\* returns Ok with ordinal_number = 0, transfers = 0 and the inscription
\* number the caller passed in.
C10_DegenerateKeepsInscriptionNumber ==
    (Ended /\ outcome = "Degenerate") =>
        result = Some(TraversalResult(inscription_number, 0, 0))

(***************************************************************************)
(* Properties of the pipeline.                                             *)
(***************************************************************************)
\* C1: in one run of fetch_and_cache_blocks_in_hord_db the heights handed to
\* update_hord_db_and_augment_bitcoin_block ascend, each one more than the
\* one before it, whatever the order the compacted blocks arrive in.
C1_HookHeightsConsecutive ==
    \A i \in 1..(Len(hook_calls) - 1) :
        hook_calls[i + 1].height = hook_calls[i].height + 1

\* two calls of the hook, the first made while the block after it was
\* already stored: that block had arrived out of order and waited
C1_Witness ==
    /\ Len(hook_calls) >= 2
    /\ hook_calls[1].height + 1 \in hook_calls[1].stored

\* C2: for every start_block and arrival order, when the hook is called for
\* block N every block of start_block..N is already in the block store.
C2_StoredUpToHookedBlock ==
    \A i \in 1..Len(hook_calls) :
        \A h \in start_block..hook_calls[i].height : h \in hook_calls[i].stored

\* a step of a call of retrieve_satoshi_point_using_lazy_storage
TraversalStep == pc = "walking" \/ pc' = "walking"

\* C22: a call of retrieve_satoshi_point_using_lazy_storage, whatever its
\* outcome, leaves every stored block, the metadata::last_insert watermark and
\* every inscription record unchanged.
C22_TraversalLeavesStores ==
    [][TraversalStep => UNCHANGED <<blocks_db, last_insert, inscriptions>>]_vars

\* a call has ended and has filled the traversal cache, over a block store and
\* an inscription store that hold something
C22_Witness ==
    /\ history # <<>>
    /\ DOMAIN traversals_cache # {}
    /\ DOMAIN blocks_db # {}
    /\ DOMAIN inscriptions # {}

\* the final stage receives its first block above the activation height
FirstReceiveAboveActivation ==
    /\ main_pc = "recv"
    /\ main_pc' = "dequeue"
    /\ inbox = {}
    /\ hook_calls = <<>>

\* C26: for every start_block, when the final stage receives its first block
\* above the activation height the reordering cursor is at that height.
C26_CursorStartsAtFirstSeen ==
    [][FirstReceiveAboveActivation => cursor' = Head(block_compressed_ch)]_vars

\* every hash fetch and every block download of the range has succeeded
EveryFetchSucceeded ==
    \A h \in start_block..end_block :
        /\ h \in DOMAIN hash_results /\ hash_results[h]
        /\ h \in DOMAIN download_results /\ download_results[h]

\* C27: if every fetch and every hook call succeeds, then once the run has
\* returned Ok every block of the range above the activation height has been
\* passed to the hook exactly once and the inbox is empty.
C27_EveryBlockHookedOnce ==
    (MainReturned /\ main_result = "Ok" /\ EveryFetchSucceeded) =>
        /\ \A h \in start_block..end_block :
            h > ordinal_computing_height =>
                Cardinality({i \in 1..Len(hook_calls) : hook_calls[i].height = h}) = 1
        /\ inbox = {}

\* C30: the run returns Ok only if every height of [start_block, end_block]
\* has been written to the block store.
C30_OkOnlyIfRangeWritten ==
    (MainReturned /\ main_result = "Ok") =>
        \A h \in start_block..end_block : h \in DOMAIN blocks_db

\* the block at the cursor was taken from the inbox and its standardization or
\* its hook call failed: the cursor is not advanced
HookOrStandardizeFails ==
    /\ main_pc = "dequeue"
    /\ cursor \in inbox
    /\ cursor \notin inbox'
    /\ cursor' = cursor

\* C31: if block standardization or the hook fails for block h, the run
\* returns an error, and no block above h is passed to the hook in that run.
C31_HookFailureEndsRun ==
    [][/\ HookOrStandardizeFails =>
            /\ main_pc' = "returned"
            /\ main_result' = "Err"
            /\ \A i \in 1..Len(hook_calls') : hook_calls'[i].height <= cursor
       /\ main_result = "Err" => (hook_calls' = hook_calls /\ main_result' = "Err")]_vars

\* a run ended by a failure at the cursor while a higher block waited in the
\* inbox, the upstream stages having finished afterwards
C31_Witness ==
    /\ main_result = "Err"
    /\ \E h \in inbox : h > cursor
    /\ retrieval_pc = "done"
    /\ compression_pc = "done"

\* the tasks of a pool, queued or running, for heights at or above the
\* activation height
TasksAtOrAboveActivation(pool) ==
    {h \in pool.running : h >= ordinal_computing_height}
        \cup {pool.queue[i] : i \in {j \in 1..Len(pool.queue) :
                                        pool.queue[j] >= ordinal_computing_height}}

\* C32: at no time does the block-fetch pool or the compact pool hold two
\* tasks for heights at or above the activation height.
C32_NearSerialAboveActivation ==
    /\ Cardinality(TasksAtOrAboveActivation(retrieve_block_data_pool)) <= 1
    /\ Cardinality(TasksAtOrAboveActivation(compress_block_data_pool)) <= 1

\* a download for a height at or above the activation height runs on a pool
\* with a free worker while the next such height waits on the channel
C32_Witness ==
    /\ network_thread >= 2
    /\ retrieval_pc = "join"
    /\ \E h \in retrieve_block_data_pool.running : h >= ordinal_computing_height
    /\ \E i \in 1..Len(block_hash_ch) :
        /\ IsSome(block_hash_ch[i])
        /\ Unwrap(block_hash_ch[i]) >= ordinal_computing_height

DownloadFailed == \E h \in DOMAIN download_results : ~download_results[h]

HashFetchFailed == \E h \in DOMAIN hash_results : ~hash_results[h]

\* a hash fetch, a block download or a hook call has failed
SomeStepFailed == HashFetchFailed \/ DownloadFailed \/ main_result = "Err"

\* the run has returned Ok with every block of the range written, and the two
\* stage threads have left their loops and joined their pools
RunComplete ==
    /\ MainReturned
    /\ main_result = "Ok"
    /\ blocks_stored = end_block - start_block + 1
    /\ \A h \in start_block..end_block : h \in DOMAIN blocks_db
    /\ retrieval_pc = "done"
    /\ compression_pc = "done"

C29_ReturnsAfterHashFailure == HashFetchFailed ~> MainReturned

\* some non-coinbase input of the block lacks its resolved prevout
SomePrevoutMissing ==
    \E i \in 2..Len(full_block.tx) :
        \E j \in 1..Len(full_block.tx[i].vin) :
            ~IsSome(full_block.tx[i].vin[j].prevout)

\* C24: encoding a full block in which a non-coinbase input lacks its
\* resolved prevout does not panic: the encoder returns to its caller.
C24_MissingPrevoutReturnsError ==
    (IsSome(packed) /\ SomePrevoutMissing) => Unwrap(packed) # Panicked

\* the iteration about to run is within the hop limit, finds the current
\* (ordinal_block_number, txid) in the cache, and one of the cached inputs
\* covers the target position
CachedInputCovers ==
    /\ pc = "walking"
    /\ ~HopLimitExceeded(hops + 1, block_identifier)
    /\ <<ordinal_block_number, tx_cursor.txid>> \in DOMAIN traversals_cache
    /\ LET tx == traversals_cache[<<ordinal_block_number, tx_cursor.txid>>] IN
       ScanInputs(tx.inputs, SatsOut(tx.outputs, tx_cursor.vout, ordinal_offset)) # 0

\* C33: when the current (ordinal_block_number, txid) is in the traversal
\* cache and a cached input covers the target position, the hop is taken from
\* the cached inputs and outputs and the iteration reads no block.
C33_CachedHopReadsNoBlock ==
    [][(CachedInputCovers /\ hops' = hops + 1) =>
        LET tx == traversals_cache[<<ordinal_block_number, tx_cursor.txid>>]
            sats_out == SatsOut(tx.outputs, tx_cursor.vout, ordinal_offset)
            k == ScanInputs(tx.inputs, sats_out)
        IN
        /\ reads' = reads
        /\ pc' = "walking"
        /\ ordinal_block_number' = tx.inputs[k].block_height
        /\ tx_cursor' = TxCursor(tx.inputs[k].txin, tx.inputs[k].vout)
        /\ ordinal_offset' = sats_out - (RunningSatsIn(tx.inputs, k) - tx.inputs[k].txin_value)
        /\ traversals_cache' = traversals_cache]_vars

\* a hop taken from the cache in a call that has read no block so far, from
\* a block that is in the store
C33_Witness ==
    /\ last_hop.kind = "cached"
    /\ last_hop.from_block \in DOMAIN blocks_db
    /\ last_hop.from_block \notin {reads[i] : i \in 1..Len(reads)}
    /\ ordinal_block_number # last_hop.from_block

\* C34: for a fixed block store and target, a traversal with a cache filled by
\* earlier traversals over the same store ends as a traversal that takes
\* nothing from the cache: same ordinal number and transfers, or same error.
C34_ResultIndependentOfCache ==
    (pc = "idle" /\ history # <<>>) =>
        LET uncached == UncachedOutcome(block_identifier, 0,
                                        TxCursor(transaction_identifier, 0), 1)
        IN  /\ result = uncached.result
            /\ outcome = uncached.outcome

\* a second traversal that took a hop from the cache left by the first and
\* reached a coinbase
C34_Witness ==
    /\ pc = "idle"
    /\ Len(history) = 2
    /\ outcome = "Done"
    /\ Len(reads) < hops
    /\ history[1].transaction_identifier # transaction_identifier

\* the iteration about to run fetches the block at ordinal_block_number, and
\* neither its coinbase nor any of its transactions has the cursor's txid
TxNotInFetchedBlock ==
    /\ pc = "walking"
    /\ ~HopLimitExceeded(hops + 1, block_identifier)
    /\ <<ordinal_block_number, tx_cursor.txid>> \notin DOMAIN traversals_cache
    /\ LET found == find_lazy_block_at_block_height(ordinal_block_number) IN
        /\ IsSome(found)
        /\ get_coinbase_txid(Unwrap(found)) # tx_cursor.txid
        /\ ~IsSome(find_and_serialize_transaction_with_txid(Unwrap(found), tx_cursor.txid))

\* C35: if the fetched block holds no transaction with the cursor's txid, the
\* traversal returns an error that carries the block height; it does not
\* panic and does not go on.
C35_TxNotFoundIsError ==
    [][(TxNotInFetchedBlock /\ hops' = hops + 1) =>
        /\ pc' = "idle"
        /\ IsSome(result')
        /\ ~Unwrap(result').ok
        /\ Unwrap(result').height = ordinal_block_number]_vars

\* the txids searched for: the all-zero prefix, the coinbase's, those the
\* transactions of the full blocks have, and one that no transaction has
SearchedTxids == {0, 4, 5, 6, 7}

\* the packed transaction is the full transaction src
SameTransaction(lazy_tx, src) ==
    /\ lazy_tx.txid = src.txid
    /\ lazy_tx.outputs = src.vout
    /\ Len(lazy_tx.inputs) = Len(src.vin)
    /\ \A j \in 1..Len(src.vin) :
        /\ lazy_tx.inputs[j].txin = Unwrap(src.vin[j].txid)
        /\ lazy_tx.inputs[j].txin_value = Unwrap(src.vin[j].prevout).value

\* what the search for a txid returns on the packed block: the first
\* non-coinbase transaction of the full block with that txid, None if none
FindsFirstMatch(searched) ==
    LET found == LazyBlock_find_and_serialize_transaction_with_txid(
                    ValueOf(Unwrap(packed)), TxidPrefix(searched))
        matches == {i \in 2..Len(full_block.tx) : full_block.tx[i].txid = searched}
    IN  IF matches = {}
        THEN found = Returned(None)
        ELSE /\ HasReturned(found)
             /\ IsSome(ValueOf(found))
             /\ SameTransaction(Unwrap(ValueOf(found)), full_block.tx[Min(matches)])

\* C36: on every packed block, also one without non-coinbase transactions,
\* and for every 8-byte prefix, find_and_serialize_transaction_with_txid
\* returns the first non-coinbase transaction with that prefix, and None when
\* there is none.
C36_FindReturnsFirstMatchOrNone ==
    (IsSome(packed) /\ HasReturned(Unwrap(packed))) =>
        \A searched \in SearchedTxids : FindsFirstMatch(searched)

\* C37: for every tx_len and every directory index that fit in a u16, the
\* lazy view computes the coinbase position 2 + 4 * tx_len and the directory
\* entry position 2 + 4 * index, without wrap-around or overflow.
C37_PositionsWithoutOverflow ==
    IsSome(position_result) =>
        /\ Unwrap(position_result).coinbase_data_pos
                = Returned(2 + 4 * position_query.tx_len)
        /\ Unwrap(position_result).inputs_len_pos
                = Returned(2 + 4 * position_query.index)

\* a call of store_new_inscription for an id that is in the table
InsertsExistingId ==
    /\ inscription_insert' # inscription_insert
    /\ Unwrap(inscription_insert').existed

\* C38: store_new_inscription for an inscription_id that is already in the
\* inscription store returns without panicking and leaves the existing record
\* and every other record unchanged.
C38_DuplicateInsertChangesNothing ==
    [][InsertsExistingId =>
        /\ Unwrap(inscription_insert').returned
        /\ inscriptions' = inscriptions]_vars

\* the last call was for an id in the table, with a row other than the one the
\* table held for it, and the table holds that id and another
C38_Witness ==
    /\ IsSome(inscription_insert)
    /\ Unwrap(inscription_insert).existed
    /\ Unwrap(inscription_insert).other_row
    /\ Unwrap(inscription_insert).returned
    /\ Unwrap(inscription_insert).inscription_id \in DOMAIN inscriptions
    /\ Cardinality(DOMAIN inscriptions) >= 2

\* an iteration whose lookup of ordinal_block_number finds no block
LookupMisses ==
    /\ pc = "walking"
    /\ reads' = Append(reads, ordinal_block_number)
    /\ ordinal_block_number \notin DOMAIN blocks_db

\* C23: if the block at ordinal_block_number is absent from the block store
\* when the traversal looks it up, the call returns at once an error that
\* names that height, with the cursor where it was.
C23_MissingBlockError ==
    [][LookupMisses =>
        /\ pc' = "idle"
        /\ result' = Some([ok |-> FALSE, inscription_number |-> 0, ordinal_number |-> 0,
                           transfers |-> 0, error |-> "BlockMissing",
                           height |-> ordinal_block_number])
        /\ UNCHANGED <<ordinal_block_number, ordinal_offset, tx_cursor>>]_vars

\* a call that hopped to a height above 0 that holds no block, and returned
\* the error for it
C23_Witness ==
    /\ pc = "idle"
    /\ outcome = "BlockMissing"
    /\ hops >= 2
    /\ ordinal_block_number > 0
    /\ ordinal_block_number \notin DOMAIN blocks_db
    /\ Unwrap(result).height = ordinal_block_number

(***************************************************************************)
(* Properties of the packed format (checked under SpecCodec).              *)
(***************************************************************************)
\* what a full block holds of what the packed format keeps
ExpectedTransaction(tx) ==
    LazyBlockTransaction(
        tx.txid,
        [j \in 1..Len(tx.vin) |->
            LazyBlockTransactionInput(
                Unwrap(tx.vin[j].txid), Unwrap(tx.vin[j].prevout).height,
                Unwrap(tx.vin[j].vout), Unwrap(tx.vin[j].prevout).value)],
        tx.vout)

\* C11: for every valid full block B, the bytes of from_full_block(B) read
\* back with get_coinbase_txid, get_coinbase_sats and iter_tx give the
\* coinbase txid prefix, the sum of the coinbase outputs and, in block order,
\* every other transaction's txid prefix, inputs (prev txid prefix, height,
\* vout, value) and output values, all as in B.
C11_RoundTrip ==
    (IsSome(lazy_read) /\ ValidFullBlock(full_block)) =>
        LET view == Unwrap(lazy_read) IN
        /\ view.coinbase_txid = Returned(full_block.tx[1].txid)
        /\ view.coinbase_sats = Returned(SumValues(full_block.tx[1].vout))
        /\ view.txs = Returned([i \in 1..(Len(full_block.tx) - 1) |->
                                    ExpectedTransaction(full_block.tx[i + 1])])

\* C12: for every packed block and every non-coinbase transaction index i,
\* the inputs and outputs that find_and_serialize_transaction_with_txid
\* returns for transaction i's prefix equal those of transaction i in the
\* block CompactedBlock::deserialize decodes from the same bytes.
C12_LazyEqualsEager ==
    (IsSome(lazy_read) /\ IsSome(eager_read)) =>
        \A i \in 1..(Len(full_block.tx) - 1) :
            LET lazy == Unwrap(lazy_read).found[i]
                eager == Unwrap(eager_read)
            IN  /\ HasReturned(lazy)
                /\ IsSome(ValueOf(lazy))
                /\ HasReturned(eager)
                /\ i <= Len(ValueOf(eager).txs)
                /\ Unwrap(ValueOf(lazy)).inputs = ValueOf(eager).txs[i].inputs
                /\ Unwrap(ValueOf(lazy)).outputs = ValueOf(eager).txs[i].outputs

(***************************************************************************)
(* Properties of the block store (checked under SpecStore).                *)
(***************************************************************************)
HighestPresent == CHOOSE k \in DOMAIN blocks_db : \A j \in DOMAIN blocks_db : j <= k

\* C13: in every reachable state of the block store, the value under
\* metadata::last_insert is the height of the highest block whose bytes are
\* present.
C13_WatermarkIsHighest ==
    DOMAIN blocks_db # {} => last_insert = Some(HighestPresent)

\* the blocks outside lo..hi are the ones the store held before, unchanged
OutsideUnchanged(lo, hi, before) ==
    /\ DOMAIN blocks_db \ (lo..hi) = DOMAIN before \ (lo..hi)
    /\ \A k \in DOMAIN before \ (lo..hi) : blocks_db[k] = before[k]

\* C14: for every lo <= hi in the u32 height range, after
\* delete_blocks_in_block_range(lo, hi), find_last_block_inserted returns
\* lo - 1, a lookup of any height in lo..hi finds nothing, and every block
\* stored outside lo..hi is unchanged.
C14_DeleteRange ==
    last_op.op = "delete" =>
        /\ find_last_block_inserted = last_op.lo - 1
        /\ \A k \in last_op.lo..last_op.hi : k \notin DOMAIN blocks_db
        /\ OutsideUnchanged(last_op.lo, last_op.hi, last_op.before.blocks_db)

\* an insert at lo that directly follows a delete of lo..hi
InsertAfterDelete ==
    /\ last_op.op = "insert"
    /\ last_op.prev.op = "delete"
    /\ last_op.lo = last_op.prev.lo

\* C15: after blocks up to hi have been inserted,
\* delete_blocks_in_block_range(lo, hi) followed by
\* insert_entry_in_blocks(lo, b) leaves find_last_block_inserted() = lo and
\* no block at any height k with lo < k <= hi.
C15_DeleteThenInsert ==
    InsertAfterDelete =>
        /\ find_last_block_inserted = last_op.lo
        /\ \A k \in (last_op.lo + 1)..last_op.prev.hi : k \notin DOMAIN blocks_db

\* the range was fully stored, with a block below it, and spans several heights
C15_Witness ==
    /\ InsertAfterDelete
    /\ last_op.prev.full
    /\ last_op.prev.hi > last_op.lo
    /\ \E k \in DOMAIN blocks_db : k < last_op.lo

\* the same (height, block) inserted twice in a row
InsertedTwice ==
    /\ last_op.op = "insert"
    /\ last_op.prev.op = "insert"
    /\ last_op.prev.lo = last_op.lo
    /\ last_op.prev.block = last_op.block

\* C16: inserting (h, b) twice leaves the value stored at h and the
\* watermark as they were after inserting (h, b) once.
C16_InsertIdempotent ==
    InsertedTwice =>
        /\ blocks_db[last_op.lo] = last_op.before.blocks_db[last_op.lo]
        /\ last_insert = last_op.before.last_insert
        /\ blocks_db = last_op.before.blocks_db

\* the second insert came when the watermark was elsewhere before the first
C16_Witness ==
    /\ InsertedTwice
    /\ \E k \in DOMAIN blocks_db : k > last_op.lo
    /\ last_insert = Some(last_op.lo)

\* a turn of the lookup loop whose read finds bytes under the height
ReadFindsBlock == lookup.pc = "running" /\ lookup' # lookup /\ lookup.height \in DOMAIN blocks_db

Completion ==
    /\ main_pc = "check"
    /\ blocks_stored = number_of_blocks_to_process
    /\ main_pc' = "returned"

\* C18: when the final stage has stored all end_block - start_block + 1
\* expected blocks, it returns Ok with the block store flushed and the None
\* sentinel sent on block_data_tx and block_hash_tx (to a receiver that is
\* still there).
C18_FlushAndSentinelsAtCompletion ==
    [][Completion =>
        /\ main_result' = "Ok"
        /\ ~unflushed_writes'
        /\ compression_pc # "done" => block_data_ch' = Append(block_data_ch, None)
        /\ retrieval_pc # "done" => block_hash_ch' = Append(block_hash_ch, None)]_vars

\* C19: when the download of a block has failed and the run has returned Ok,
\* every block of the range whose download succeeded is in the block store.
C19_FailedDownloadDropsOneSlot ==
    (MainReturned /\ main_result = "Ok" /\ DownloadFailed) =>
        \A h \in DOMAIN download_results :
            download_results[h] => h \in DOMAIN blocks_db

\* C20: the hook is called for a block exactly when its height is at or above
\* the activation height: never below it, and, once a run has stored every
\* block of a range that holds the activation height, for that height.
C20_HookFromActivationHeight ==
    /\ \A i \in 1..Len(hook_calls) : hook_calls[i].height >= ordinal_computing_height
    /\ (/\ MainReturned
        /\ main_result = "Ok"
        /\ blocks_stored = number_of_blocks_to_process
        /\ ordinal_computing_height \in start_block..end_block) =>
            \E i \in 1..Len(hook_calls) : hook_calls[i].height = ordinal_computing_height

(***************************************************************************)
(* Properties of the final stage's housekeeping (checked under             *)
(* SpecHousekeeping).                                                      *)
(***************************************************************************)
\* C21: with the block writes of a run counted 1, 2, 3, ..., the traversal
\* cache is cleared after write w whenever w is a multiple of 24 and the run
\* has not completed, and no more than 24 writes separate two clears.
C21_ClearedEvery24Writes ==
    /\ (main_pc = "recv" /\ blocks_stored > 0 /\ blocks_stored % 24 = 0) =>
            last_clear = blocks_stored
    /\ blocks_stored - last_clear <= 24

(***************************************************************************)
(* Properties of the inscription store (checked under SpecInscriptions).   *)
(***************************************************************************)
\* a call of find_inscription_with_id has just returned
Queried == inscription_query' # inscription_query

\* C25: find_inscription_with_id(id, block_hash) returns a result only if a
\* record with that id exists and its block_hash is the one given; the result
\* carries the record's inscription_number and ordinal_number; for another
\* hash or an unknown id it returns None.
C25_FindMatchesIdAndHash ==
    [][Queried =>
        LET q == Unwrap(inscription_query') IN
        IF q.inscription_id \in DOMAIN inscriptions
            /\ inscriptions[q.inscription_id].block_hash = q.block_hash
        THEN /\ IsSome(q.result)
             /\ Unwrap(q.result).inscription_number =
                    inscriptions[q.inscription_id].inscription_number
             /\ Unwrap(q.result).ordinal_number =
                    inscriptions[q.inscription_id].ordinal_number
        ELSE q.result = None]_vars

\* a record that is there (beside one numbered 1) was asked for with another
\* block hash, and nothing was returned
C25_Witness ==
    /\ IsSome(inscription_query)
    /\ Unwrap(inscription_query).inscription_id \in DOMAIN inscriptions
    /\ inscriptions[Unwrap(inscription_query).inscription_id].block_hash
            # Unwrap(inscription_query).block_hash
    /\ Unwrap(inscription_query).result = None
    /\ \E id \in DOMAIN inscriptions : inscriptions[id].inscription_number = 1

====
